---- MODULE Spec2Model ----
(***************************************************************************)
(* A model of the 3MF package parser (internal/parser) of farmix3d-cli:    *)
(* Parse3MF with its archive extraction, document readers and assembly     *)
(* component resolution, and the object grouping engine                    *)
(* GroupObjectsByName.                                                     *)
(*                                                                         *)
(* Go strings are TLA+ strings; a nil pointer is a record whose Nil field  *)
(* is TRUE; a Go map is a function whose DOMAIN is the set of keys.        *)
(* The file system is kept per directory of /tmp as a function from the    *)
(* path below that directory to the file's content; the writer resolves    *)
(* filepath.Join(destDir, name) with its "." and ".." segments, the        *)
(* readers join the scratch directory with clean relative paths.           *)
(* The transform strings of build items and components are not part of    *)
(* the state of Parse3MF; ParseTransform and getObjectNameFromParts are    *)
(* modelled as calls of their own.  Two concurrent calls of Parse3MF share *)
(* the file system; the locals of the call that is not running are kept    *)
(* in one record.                                                          *)
(* os.RemoveAll is taken to succeed: the code ignores its error.           *)
(***************************************************************************)
EXTENDS Integers, Sequences, FiniteSets, TLC

VARIABLES
    archive,    \* the package: zip entries in archive order (the input)
    fs,         \* /tmp: scratch directory name -> (entry name -> content)
    tempDir,    \* ExtractArchive's tempDir / Parse3MF's extractDir ("" = none)
    pc,         \* position inside Parse3MF
    entryIdx,   \* ExtractArchive: index of the next reader.File entry
    model,      \* Parse3MF: *Model3D returned by ParseModel3D
    settings,   \* Parse3MF: *ModelSettings returned by ParseModelSettings
    plateMap,   \* Parse3MF: map[int]*PlateInfo
    buildIdx,   \* Parse3MF: index of the next model.Build item
    result,     \* Parse3MF: returned *Parser3MF
    err,        \* Parse3MF: returned error ("nil" = no error)
    objects,    \* GroupObjectsByName: the argument
    groups,     \* GroupObjectsByName: map[string]GroupedObject
    objIdx,     \* GroupObjectsByName: index of the next object
    gpc,        \* position inside GroupObjectsByName
    objMeta,    \* getObjectNameFromParts: the argument
    objName,    \* getObjectNameFromParts: the returned string
    transformStr, \* ParseTransform: the argument
    transform,  \* ParseTransform: the returned Transform3D
    fpc,        \* position of the call of getObjectNameFromParts/ParseTransform
    other,      \* the locals of a second Parse3MF call, while it is not running
    self,       \* which of the two Parse3MF calls is running: 1 or 2
    fileName,   \* ParseFileName: the argument, a sequence of runes
    cleanName,  \* ParseFileName: the returned cleanName
    quantity,   \* ParseFileName: the returned quantity
    npc,        \* position of the call of ParseFileName
    walkRoot,   \* find3DFiles: what the argument dir names in the file system
    walkIdx,    \* filepath.WalkDir: index of the next call of the callback
    files3D,    \* find3DFiles: the slice the callback appends to
    walkErr,    \* find3DFiles: the error filepath.WalkDir returned
    found,      \* find3DFiles: the returned slice
    wpc,        \* position inside find3DFiles
    sections,   \* Bitrix24: the sections of the catalog
    catalogProducts, \* Bitrix24: the products of the catalog
    dealRows,   \* Bitrix24: the product rows of the deal
    warehouse,  \* Bitrix24: the warehouse mode, the store and the document
    requests,   \* the requests the client has sent, in order
    dryRun,     \* the --dry-run flag
    command,    \* the command that runs
    cpc,        \* position inside the command
    cerr,       \* the error the command returned ("nil" = no error)
    locals      \* the locals of the functions of the client

vars == <<archive, fs, tempDir, pc, entryIdx, model, settings, plateMap,
          buildIdx, result, err, objects, groups, objIdx, gpc,
          objMeta, objName, transformStr, transform, fpc, other, self,
          fileName, cleanName, quantity, npc,
          walkRoot, walkIdx, files3D, walkErr, found, wpc,
          sections, catalogProducts, dealRows, warehouse, requests, dryRun,
          command, cpc, cerr, locals>>

parseVars == <<archive, fs, tempDir, pc, entryIdx, model, settings, plateMap,
               buildIdx, result, err>>

groupVars == <<objects, groups, objIdx, gpc>>

funcVars == <<objMeta, objName, transformStr, transform, fpc>>

callVars == <<other, self>>

nameVars == <<fileName, cleanName, quantity, npc>>

(* The variables of the Bitrix24 commands *)
walkVars == <<walkRoot, walkIdx, files3D, walkErr, found, wpc>>

crmVars == <<sections, catalogProducts, dealRows, warehouse, requests,
            dryRun, command, cpc, cerr, locals>>

cliVars == <<nameVars, walkVars, crmVars>>

(* The variables of the 3MF parser *)
parserVars == <<parseVars, groupVars, funcVars, callVars>>

-----------------------------------------------------------------------------
(* Bounds of the input domain *)

MaxComponents == 2
MaxBuild == 2
MaxObjects == 2
MaxParts == 2
MaxTokens == 13

(* Paths inside the package *)
MainPath == "3D/3dmodel.model"
SettingsPath == "Metadata/model_settings.config"
SubPath == "3D/Objects/object_1.model"
StlPath == "3D/Objects/part.stl"

TempNames == {"/tmp/3mf_1", "/tmp/3mf_2"}

EmptyMap == [k \in {} |-> 0]

(* The elements of a sequence *)
Range(f) == {f[i] : i \in DOMAIN f}

(* All sequences over S of length at most n *)
SeqUpTo(S, n) == UNION {[1..k -> S] : k \in 0..n}

-----------------------------------------------------------------------------
(* Values of the parser's types *)

NoComponents == [Nil |-> TRUE, Components |-> <<>>]

ComponentsCollection(cs) == [Nil |-> FALSE, Components |-> cs]

ModelObject(id, name, mesh, comps) ==
    [ID |-> id, Name |-> name, Mesh |-> mesh, Components |-> comps]

Model3D(resources, build) == [Resources |-> resources, Build |-> build]

ModelSettings(plates, instances, objs, parts) ==
    [Plates |-> plates, Instances |-> instances, Objects |-> objs, Parts |-> parts]

Plate(id, name, metadata, instances) ==
    [PlaterID |-> id, PlaterName |-> name, Metadata |-> metadata,
     Instances |-> instances]

MetadataEntry(key, value) == [Key |-> key, Value |-> value]

ModelInstance(objectID, instanceID, metadata) ==
    [ObjectID |-> objectID, InstanceID |-> instanceID, Metadata |-> metadata]

ObjectMeta(id, metadata, parts) ==
    [ID |-> id, Name |-> "", Metadata |-> metadata, Parts |-> parts]

NilDoc == [Nil |-> TRUE, Doc |-> Model3D(<<>>, <<>>)]

NilResult == [Nil |-> TRUE, Plates |-> <<>>]

(* The content of an extracted file: bytes that deserialize to Doc, or not *)
Valid(doc) == [Valid |-> TRUE, Doc |-> doc]

Malformed == [Valid |-> FALSE, Doc |-> Model3D(<<>>, <<>>)]

-----------------------------------------------------------------------------
(* strings.HasSuffix *)
HasSuffix(s, suffix) ==
    /\ Len(s) >= Len(suffix)
    /\ SubSeq(s, Len(s) - Len(suffix) + 1, Len(s)) = suffix

(* strings.Join *)
RECURSIVE Join(_, _)
Join(elems, sep) ==
    IF elems = <<>> THEN ""
    ELSE IF Len(elems) = 1 THEN elems[1]
    ELSE elems[1] \o sep \o Join(Tail(elems), sep)

(* The index of the last occurrence of k in a sequence of keys *)
LastIndex(keys, k) ==
    CHOOSE i \in DOMAIN keys :
        /\ keys[i] = k
        /\ \A j \in DOMAIN keys : j > i => keys[j] # k

(* The smallest element of a non-empty set of integers *)
Min(S) == CHOOSE i \in S : \A j \in S : i <= j

(* metadata.go: extractMetadataValue, the first value whose key matches *)
extractMetadataValue(metadata, key) ==
    LET hits == {i \in DOMAIN metadata : metadata[i].Key = key}
    IN  IF hits = {} THEN "" ELSE metadata[Min(hits)].Value

(* metadata.go: buildObjectMetadataMap, id -> non-empty name metadata *)
buildObjectMetadataMap(objs) ==
    LET NameOf(o) == extractMetadataValue(o.Metadata, "name")
        named == SelectSeq(objs, LAMBDA o : NameOf(o) # "")
        ids == [i \in DOMAIN named |-> named[i].ID]
    IN  [id \in Range(ids) |-> NameOf(named[LastIndex(ids, id)])]

(* parser.go 38-43: partNameMap, the last part entry of an id wins *)
PartNameMap(parts) ==
    LET ids == [i \in DOMAIN parts |-> parts[i].ID]
    IN  [id \in Range(ids) |-> parts[LastIndex(ids, id)].Name]

(* parser.go 38-43: partFileMap *)
PartFileMap(parts) ==
    LET ids == [i \in DOMAIN parts |-> parts[i].ID]
    IN  [id \in Range(ids) |-> parts[LastIndex(ids, id)].SourceFile]

(* parser.go 45-48: instanceToPlateMap, object id -> instance id *)
InstanceToPlateMap(instances) ==
    LET ids == [i \in DOMAIN instances |-> instances[i].ObjectID]
    IN  [id \in Range(ids) |-> instances[LastIndex(ids, id)].InstanceID]

(* parser.go 27-34: one empty PlateInfo per declared plate id *)
InitialPlateMap(plates) ==
    LET ids == [i \in DOMAIN plates |-> plates[i].PlaterID]
    IN  [id \in Range(ids) |->
            [PlateID |-> id,
             PlateName |-> plates[LastIndex(ids, id)].PlaterName,
             Objects |-> <<>>]]

(* The decimal digit a one-character string denotes, or -1 *)
DigitOf(c) ==
    IF \E d \in 0..9 : ToString(d) = c
    THEN CHOOSE d \in 0..9 : ToString(d) = c
    ELSE -1

(* strconv.Atoi: an optional sign and at least one decimal digit; the      *)
(* strings of the model stay far below the range of int                    *)
Atoi(s) ==
    LET signed == Len(s) > 0 /\ SubSeq(s, 1, 1) \in {"+", "-"}
        digits == IF signed THEN SubSeq(s, 2, Len(s)) ELSE s
        RECURSIVE Value(_)
        Value(n) == IF n = 0 THEN 0
                    ELSE 10 * Value(n - 1) + DigitOf(SubSeq(digits, n, n))
        ok == /\ Len(digits) > 0
              /\ \A i \in 1..Len(digits) : DigitOf(SubSeq(digits, i, i)) >= 0
    IN  IF ~ok THEN [Err |-> "invalid syntax", Val |-> 0]
        ELSE [Err |-> "nil",
              Val |-> IF signed /\ SubSeq(s, 1, 1) = "-"
                      THEN 0 - Value(Len(digits))
                      ELSE Value(Len(digits))]

(* metadata.go: getObjectNameFromParts skipping the object-level name *)
getObjectNameFromPartsPartFirst(o) ==
    IF Len(o.Parts) = 1 /\ extractMetadataValue(o.Parts[1].Metadata, "name") # ""
    THEN extractMetadataValue(o.Parts[1].Metadata, "name")
    ELSE IF extractMetadataValue(o.Metadata, "name") # ""
    THEN extractMetadataValue(o.Metadata, "name")
    ELSE "Object_" \o ToString(o.ID)

(* metadata.go: getObjectNameFromParts *)
getObjectNameFromParts(o) ==
    IF extractMetadataValue(o.Metadata, "name") # ""
    THEN extractMetadataValue(o.Metadata, "name")
    ELSE IF Len(o.Parts) = 1 /\ extractMetadataValue(o.Parts[1].Metadata, "name") # ""
    THEN extractMetadataValue(o.Parts[1].Metadata, "name")
    ELSE "Object_" \o ToString(o.ID)

-----------------------------------------------------------------------------
(* ParseTransform and the library functions it rests on.  A float64 is the *)
(* pair of a signed decimal mantissa without trailing zeros and a decimal  *)
(* exponent, so that "1", "1.0" and "10e-1" denote one value; the numerals *)
(* of the model are short enough to be exact.  Hexadecimal numerals and    *)
(* the words inf and nan, which strconv.ParseFloat also accepts, are not   *)
(* part of the model.                                                      *)

TransformSize == 12

RECURSIVE Float(_, _)
Float(mant, exp) ==
    IF mant = 0 THEN [Mant |-> 0, Exp |-> 0]
    ELSE IF mant % 10 = 0 THEN Float(mant \div 10, exp + 1)
    ELSE [Mant |-> mant, Exp |-> exp]

(* [12]float64{1, 0, 0, 0, 1, 0, 0, 0, 1, 0, 0, 0} *)
IdentityMatrix ==
    [i \in 1..TransformSize |->
        IF i \in {1, 5, 9} THEN Float(1, 0) ELSE Float(0, 0)]

(* unicode.IsSpace, on the white space of the model *)
IsSpace(c) == c \in {" ", "\t", "\r"}

(* strings.Fields: the maximal runs of characters that are not white space *)
RECURSIVE FieldsFrom(_, _, _)
FieldsFrom(s, i, field) ==
    IF i > Len(s)
    THEN IF field = "" THEN <<>> ELSE <<field>>
    ELSE IF IsSpace(SubSeq(s, i, i))
    THEN (IF field = "" THEN <<>> ELSE <<field>>) \o FieldsFrom(s, i + 1, "")
    ELSE FieldsFrom(s, i + 1, field \o SubSeq(s, i, i))

Fields(s) == FieldsFrom(s, 1, "")

(* The position after the run of decimal digits that starts at i *)
RECURSIVE DigitsEnd(_, _)
DigitsEnd(s, i) ==
    IF i <= Len(s) /\ DigitOf(SubSeq(s, i, i)) >= 0
    THEN DigitsEnd(s, i + 1)
    ELSE i

(* The number the digits s[i..j-1] denote, 0 for no digits *)
RECURSIVE NatOf(_, _, _)
NatOf(s, i, j) ==
    IF j <= i THEN 0
    ELSE 10 * NatOf(s, i, j - 1) + DigitOf(SubSeq(s, j - 1, j - 1))

RECURSIVE Pow10(_)
Pow10(n) == IF n = 0 THEN 1 ELSE 10 * Pow10(n - 1)

(* The number of decimal digits of a positive integer *)
RECURSIVE NumDigits(_)
NumDigits(n) == IF n < 10 THEN 1 ELSE 1 + NumDigits(n \div 10)

(* strconv.ParseFloat(s, 64) on decimal numerals: an optional sign, digits *)
(* with an optional point, at least one digit, an optional exponent; a     *)
(* numeral beyond the largest float64 is a range error                     *)
ParseFloat(s) ==
    LET At(i) == IF i <= Len(s) THEN SubSeq(s, i, i) ELSE ""
        p0 == IF At(1) \in {"+", "-"} THEN 2 ELSE 1
        p1 == DigitsEnd(s, p0)
        p2 == IF At(p1) = "." THEN p1 + 1 ELSE p1
        p3 == DigitsEnd(s, p2)
        hasExp == At(p3) \in {"e", "E"}
        p4 == IF At(p3 + 1) \in {"+", "-"} THEN p3 + 2 ELSE p3 + 1
        p5 == DigitsEnd(s, p4)
        end == IF hasExp THEN p5 ELSE p3
        ok == /\ (p1 - p0) + (p3 - p2) >= 1
              /\ hasExp => p5 > p4
              /\ end = Len(s) + 1
        digits == NatOf(s, p0, p1) * Pow10(p3 - p2) + NatOf(s, p2, p3)
        exp10 == IF ~hasExp THEN 0
                 ELSE IF At(p3 + 1) = "-" THEN 0 - NatOf(s, p4, p5)
                 ELSE NatOf(s, p4, p5)
        val == Float(IF At(1) = "-" THEN 0 - digits ELSE digits,
                     exp10 - (p3 - p2))
    IN  IF ~ok THEN [Err |-> "invalid syntax", Val |-> Float(0, 0)]
        ELSE IF val.Mant # 0 /\
                NumDigits(IF val.Mant < 0 THEN 0 - val.Mant ELSE val.Mant)
                    + val.Exp - 1 > 308
        THEN [Err |-> "value out of range", Val |-> Float(0, 0)]
        ELSE [Err |-> "nil", Val |-> val]

(* ParseTransform giving up the whole matrix when one token fails *)
ParseTransformAllOrNothing(str) ==
    LET parts == Fields(str)
    IN  IF str = "" THEN IdentityMatrix
        ELSE IF Len(parts) # TransformSize THEN IdentityMatrix
        ELSE IF \E i \in DOMAIN parts : ParseFloat(parts[i]).Err # "nil"
        THEN IdentityMatrix
        ELSE [i \in 1..TransformSize |-> ParseFloat(parts[i]).Val]

(* model_parser.go: ParseTransform, the Matrix of the returned Transform3D *)
ParseTransform(str) ==
    LET parts == Fields(str)
    IN  IF str = "" THEN IdentityMatrix
        ELSE IF Len(parts) # TransformSize THEN IdentityMatrix
        ELSE [i \in 1..TransformSize |->
                IF ParseFloat(parts[i]).Err = "nil"
                THEN ParseFloat(parts[i]).Val
                ELSE Float(0, 0)]

(* metadata.go 106-113: the plate id, the plater_id metadata preferred *)
ResolvedPlateID(plate) ==
    LET plateIDStr == extractMetadataValue(plate.Metadata, "plater_id")
    IN  IF plateIDStr # "" /\ Atoi(plateIDStr).Err = "nil"
        THEN Atoi(plateIDStr).Val
        ELSE plate.PlaterID

(* metadata.go 114-116: the plate name, the plater_name metadata preferred *)
ResolvedPlateName(plate) ==
    LET nameStr == extractMetadataValue(plate.Metadata, "plater_name")
    IN  IF nameStr # "" THEN nameStr ELSE plate.PlaterName

(* metadata.go 30-33: isAssemblyObject, the metadata-level heuristic;      *)
(* Parse3MF does not call it                                               *)
isAssemblyObject(o) ==
    extractMetadataValue(o.Metadata, "name") = "Assembly" /\ Len(o.Parts) > 1

(* metadata.go 78-93: the object id and the instance id of an instance     *)
(* entry, the metadata preferred where it is an integer                    *)
ResolvedInstance(instance) ==
    LET objectIDStr == extractMetadataValue(instance.Metadata, "object_id")
        instanceIDStr == extractMetadataValue(instance.Metadata, "instance_id")
    IN  [ObjectID |-> IF /\ Len(instance.Metadata) > 0
                         /\ objectIDStr # ""
                         /\ Atoi(objectIDStr).Err = "nil"
                      THEN Atoi(objectIDStr).Val
                      ELSE instance.ObjectID,
         InstanceID |-> IF /\ Len(instance.Metadata) > 0
                           /\ instanceIDStr # ""
                           /\ Atoi(instanceIDStr).Err = "nil"
                        THEN Atoi(instanceIDStr).Val
                        ELSE instance.InstanceID]

(* metadata.go 74-99: parseModelInstances, resolved object id -> resolved  *)
(* instance id, the last entry of an object id winning; Parse3MF does not  *)
(* call it                                                                 *)
parseModelInstances(instances) ==
    LET resolved == [i \in DOMAIN instances |-> ResolvedInstance(instances[i])]
        ids == [i \in DOMAIN resolved |-> resolved[i].ObjectID]
    IN  [id \in Range(ids) |-> resolved[LastIndex(ids, id)].InstanceID]

(* metadata.go 101-141: parsePlates, the plate map keyed by resolved id    *)
(* and the object-to-plate index of the nested instances; Parse3MF does    *)
(* not call it                                                             *)
parsePlates(plates) ==
    LET ids == [i \in DOMAIN plates |-> ResolvedPlateID(plates[i])]
        RECURSIVE Nested(_)
        Nested(n) ==
            IF n = 0 THEN <<>>
            ELSE Nested(n - 1) \o
                 [j \in DOMAIN plates[n].Instances |->
                     [ObjectID |-> plates[n].Instances[j].ObjectID,
                      PlateID |-> ids[n]]]
        nested == Nested(Len(plates))
        objectIDs == [j \in DOMAIN nested |-> nested[j].ObjectID]
    IN  [plateMap |->
            [id \in Range(ids) |->
                [PlateID |-> id,
                 PlateName |-> ResolvedPlateName(plates[LastIndex(ids, id)]),
                 Objects |-> <<>>]],
         objectToPlateMap |->
            [id \in Range(objectIDs) |->
                nested[LastIndex(objectIDs, id)].PlateID]]

(* A lookup in a map of values: a missing id yields the zero ModelObject *)
LookupModelObjectZeroValue(resources, objectID) ==
    LET ids == [i \in DOMAIN resources |-> resources[i].ID]
    IN  IF objectID \in Range(ids)
        THEN [Nil |-> FALSE, Obj |-> resources[LastIndex(ids, objectID)]]
        ELSE [Nil |-> FALSE, Obj |-> ModelObject(0, "", FALSE, NoComponents)]

(* parser.go 50-54 and 57-60: the resource a build item refers to, or nil *)
LookupModelObject(resources, objectID) ==
    LET ids == [i \in DOMAIN resources |-> resources[i].ID]
    IN  IF objectID \in Range(ids)
        THEN [Nil |-> FALSE, Obj |-> resources[LastIndex(ids, objectID)]]
        ELSE [Nil |-> TRUE, Obj |-> ModelObject(0, "", FALSE, NoComponents)]

(* model_parser.go: ParseAssemblyModel over the files of the scratch tree *)
ParseAssemblyModel(files, assemblyPath) ==
    IF assemblyPath \notin DOMAIN files
    THEN [Err |-> "assembly file not found", Model |-> Model3D(<<>>, <<>>)]
    ELSE IF ~files[assemblyPath].Valid
    THEN [Err |-> "failed to parse assembly XML", Model |-> Model3D(<<>>, <<>>)]
    ELSE [Err |-> "nil", Model |-> files[assemblyPath].Doc]

(* isEmptyAssembly reporting an empty path as not empty *)
isEmptyAssemblyKeepsNoSource(files, assemblyPath) ==
    IF assemblyPath = "" THEN FALSE
    ELSE IF ~HasSuffix(assemblyPath, ".model") THEN FALSE
    ELSE LET parsed == ParseAssemblyModel(files, assemblyPath)
         IN  IF parsed.Err # "nil" THEN TRUE
             ELSE Len(parsed.Model.Resources) = 0

(* isEmptyAssembly reporting a document that fails to parse as not empty *)
isEmptyAssemblyKeepsUnparsed(files, assemblyPath) ==
    IF assemblyPath = "" THEN TRUE
    ELSE IF ~HasSuffix(assemblyPath, ".model") THEN FALSE
    ELSE LET parsed == ParseAssemblyModel(files, assemblyPath)
         IN  IF parsed.Err # "nil" THEN FALSE
             ELSE Len(parsed.Model.Resources) = 0

(* parser.go: isEmptyAssembly *)
isEmptyAssembly(files, assemblyPath) ==
    IF assemblyPath = "" THEN TRUE
    ELSE IF ~HasSuffix(assemblyPath, ".model") THEN FALSE
    ELSE LET parsed == ParseAssemblyModel(files, assemblyPath)
         IN  IF parsed.Err # "nil" THEN TRUE
             ELSE Len(parsed.Model.Resources) = 0

(* A component naming that takes the first resource of the external       *)
(* document, whatever its id                                               *)
ComponentInfoOfFirstResource(files, comp, partNameMap, partFileMap) ==
    LET provisional ==
            IF comp.ObjectID \in DOMAIN partNameMap
            THEN partNameMap[comp.ObjectID]
            ELSE "Component_" \o ToString(comp.ObjectID)
        parsed == ParseAssemblyModel(files, comp.Path)
        res == parsed.Model.Resources
        named == {i \in DOMAIN res : res[i].Name # ""}
    IN  IF comp.Path # ""
        THEN [ID |-> comp.ObjectID,
              Name |-> IF parsed.Err = "nil" /\ Len(res) > 0 /\ named # {}
                       THEN res[Min(named)].Name
                       ELSE provisional,
              SourceFile |-> comp.Path]
        ELSE [ID |-> comp.ObjectID,
              Name |-> provisional,
              SourceFile |-> IF comp.ObjectID \in DOMAIN partFileMap
                             THEN partFileMap[comp.ObjectID]
                             ELSE ""]

(* parser.go 128-153: the ComponentInfo of one component reference *)
ComponentInfoOf(files, comp, partNameMap, partFileMap) ==
    LET provisional ==
            IF comp.ObjectID \in DOMAIN partNameMap
            THEN partNameMap[comp.ObjectID]
            ELSE "Component_" \o ToString(comp.ObjectID)
        parsed == ParseAssemblyModel(files, comp.Path)
        res == parsed.Model.Resources
        named == {i \in DOMAIN res : res[i].ID = comp.ObjectID /\ res[i].Name # ""}
    IN  IF comp.Path # ""
        THEN [ID |-> comp.ObjectID,
              Name |-> IF parsed.Err = "nil" /\ Len(res) > 0 /\ named # {}
                       THEN res[Min(named)].Name
                       ELSE provisional,
              SourceFile |-> comp.Path]
        ELSE [ID |-> comp.ObjectID,
              Name |-> provisional,
              SourceFile |-> IF comp.ObjectID \in DOMAIN partFileMap
                             THEN partFileMap[comp.ObjectID]
                             ELSE ""]

(* processAssemblyComponents propagating a sub-assembly parse failure *)
processAssemblyComponentsFailing(files, components, partNameMap, partFileMap) ==
    LET infos == [i \in DOMAIN components.Components |->
                    ComponentInfoOf(files, components.Components[i],
                                    partNameMap, partFileMap)]
        failed == {i \in DOMAIN infos :
                     /\ HasSuffix(infos[i].SourceFile, ".model")
                     /\ ParseAssemblyModel(files, infos[i].SourceFile).Err # "nil"}
    IN  [Components |-> SelectSeq(infos,
                           LAMBDA c : ~isEmptyAssembly(files, c.SourceFile)),
         Err |-> IF failed = {} THEN "nil" ELSE "failed to parse assembly XML"]

(* parser.go: processAssemblyComponents *)
processAssemblyComponents(files, components, partNameMap, partFileMap) ==
    LET infos == [i \in DOMAIN components.Components |->
                    ComponentInfoOf(files, components.Components[i],
                                    partNameMap, partFileMap)]
    IN  [Components |-> SelectSeq(infos,
                           LAMBDA c : ~isEmptyAssembly(files, c.SourceFile)),
         Err |-> "nil"]

(* A name resolution that passes over the part names *)
getObjectNameSkippingParts(objectID, objectNameMap, partNameMap, modelObj) ==
    IF objectID \in DOMAIN objectNameMap /\ objectNameMap[objectID] # ""
    THEN objectNameMap[objectID]
    ELSE IF modelObj.Name # "" THEN modelObj.Name
    ELSE "Object_" \o ToString(objectID)

(* parser.go: getObjectName *)
getObjectName(objectID, objectNameMap, partNameMap, modelObj) ==
    IF objectID \in DOMAIN objectNameMap /\ objectNameMap[objectID] # ""
    THEN objectNameMap[objectID]
    ELSE IF objectID \in DOMAIN partNameMap /\ partNameMap[objectID] # ""
    THEN partNameMap[objectID]
    ELSE IF modelObj.Name # "" THEN modelObj.Name
    ELSE "Object_" \o ToString(objectID)

(* A plate lookup that never consults the instance index *)
findPlateForObjectAnyPlate(objectID, instanceToPlateMap, plates) ==
    IF DOMAIN plates # {} THEN DOMAIN plates ELSE {0}

(* A plate lookup that trusts the instance index without checking that    *)
(* the plate exists                                                        *)
findPlateForObjectNoFallback(objectID, instanceToPlateMap, plates) ==
    IF objectID \in DOMAIN instanceToPlateMap
    THEN {instanceToPlateMap[objectID]}
    ELSE IF DOMAIN plates # {} THEN DOMAIN plates
    ELSE {0}

(* parser.go: findPlateForObject; ranging over a Go map yields its keys in  *)
(* an unspecified order, so the fallback is any declared plate id.          *)
findPlateForObject(objectID, instanceToPlateMap, plates) ==
    IF /\ objectID \in DOMAIN instanceToPlateMap
       /\ instanceToPlateMap[objectID] \in DOMAIN plates
    THEN {instanceToPlateMap[objectID]}
    ELSE IF DOMAIN plates # {} THEN DOMAIN plates
    ELSE {0}

(* The kind decided by the components collection before the mesh *)
KindOfComponentsFirst(files, modelObj, partNameMap, partFileMap) ==
    IF ~modelObj.Components.Nil
    THEN LET resolved == processAssemblyComponents(files, modelObj.Components,
                                                   partNameMap, partFileMap)
         IN  [Type |-> "assembly", Components |-> resolved.Components,
              Err |-> resolved.Err]
    ELSE IF modelObj.Mesh
    THEN [Type |-> "mesh", Components |-> <<>>, Err |-> "nil"]
    ELSE [Type |-> "", Components |-> <<>>, Err |-> "nil"]

(* The kind with the components resolved whenever a collection is present *)
KindOfResolvingAlways(files, modelObj, partNameMap, partFileMap) ==
    LET resolved == processAssemblyComponents(files, modelObj.Components,
                                              partNameMap, partFileMap)
    IN  IF modelObj.Mesh
        THEN [Type |-> "mesh",
              Components |-> IF modelObj.Components.Nil THEN <<>>
                             ELSE resolved.Components,
              Err |-> "nil"]
        ELSE IF ~modelObj.Components.Nil
        THEN [Type |-> "assembly", Components |-> resolved.Components,
              Err |-> resolved.Err]
        ELSE [Type |-> "", Components |-> <<>>, Err |-> "nil"]

(* parser.go 74-83: kind and component list of a plate object *)
KindOf(files, modelObj, partNameMap, partFileMap) ==
    IF modelObj.Mesh
    THEN [Type |-> "mesh", Components |-> <<>>, Err |-> "nil"]
    ELSE IF ~modelObj.Components.Nil
    THEN LET resolved == processAssemblyComponents(files, modelObj.Components,
                                                   partNameMap, partFileMap)
         IN  [Type |-> "assembly", Components |-> resolved.Components,
              Err |-> resolved.Err]
    ELSE [Type |-> "", Components |-> <<>>, Err |-> "nil"]

(* parser.go 62-83: the PlateObject of a resolved build item *)
PlateObjectOf(files, buildItem, modelObj, sett) ==
    LET kind == KindOf(files, modelObj, PartNameMap(sett.Parts),
                       PartFileMap(sett.Parts))
    IN  [ID |-> buildItem.ObjectID,
         Name |-> getObjectName(buildItem.ObjectID,
                                buildObjectMetadataMap(sett.Objects),
                                PartNameMap(sett.Parts), modelObj),
         Type |-> kind.Type,
         Material |-> "",
         Printable |-> IF buildItem.Printable = "nil" THEN TRUE
                       ELSE buildItem.Printable = "true",
         Components |-> kind.Components]

(* The object put in front of the plate's list *)
AddToPlatePrepending(plates, plateID, plateObject) ==
    IF plateID \in DOMAIN plates
    THEN [plates EXCEPT ![plateID].Objects = <<plateObject>> \o @]
    ELSE plates

(* parser.go 85-88: the object is appended to the plate's list when the    *)
(* plate exists, and dropped otherwise                                     *)
AddToPlate(plates, plateID, plateObject) ==
    IF plateID \in DOMAIN plates
    THEN [plates EXCEPT ![plateID].Objects = Append(@, plateObject)]
    ELSE plates

-----------------------------------------------------------------------------
(* The file system primitives of extractor.go *)

(* os.RemoveAll: the directory and everything below it is gone *)
RemoveAll(fsys, dir) == [d \in DOMAIN fsys \ {dir} |-> fsys[d]]

(* A cleanup that leaves the directory in place *)
CleanupTempSkipped(fsys, dir) == fsys

(* extractor.go: CleanupTemp *)
CleanupTemp(fsys, dir) == RemoveAll(fsys, dir)

(* The segments of a slash-separated path, empty segments left out *)
RECURSIVE SplitFrom(_, _, _)
SplitFrom(path, i, segment) ==
    IF i > Len(path)
    THEN IF segment = "" THEN <<>> ELSE <<segment>>
    ELSE IF SubSeq(path, i, i) = "/"
    THEN (IF segment = "" THEN <<>> ELSE <<segment>>) \o SplitFrom(path, i + 1, "")
    ELSE SplitFrom(path, i + 1, segment \o SubSeq(path, i, i))

SplitPath(path) == SplitFrom(path, 1, "")

(* filepath.Clean on the segments of a rooted path: "." is dropped, ".."   *)
(* removes the segment before it, and is dropped at the root               *)
RECURSIVE CleanSegments(_, _)
CleanSegments(done, rest) ==
    IF rest = <<>> THEN done
    ELSE IF Head(rest) = "." THEN CleanSegments(done, Tail(rest))
    ELSE IF Head(rest) = ".."
    THEN CleanSegments(IF done = <<>> THEN <<>>
                       ELSE SubSeq(done, 1, Len(done) - 1), Tail(rest))
    ELSE CleanSegments(Append(done, Head(rest)), Tail(rest))

(* filepath.Join(destDir, name) for a rooted destDir, as the directory of  *)
(* /tmp the path lies in and the path below that directory; a path that    *)
(* is not below a directory of /tmp is given by its parent and base name   *)
JoinPath(destDir, name) ==
    LET segs == CleanSegments(<<>>, SplitPath(destDir) \o SplitPath(name))
    IN  IF Len(segs) >= 3 /\ segs[1] = "tmp"
        THEN [Dir |-> "/tmp/" \o segs[2],
              Name |-> Join(SubSeq(segs, 3, Len(segs)), "/")]
        ELSE IF segs = <<>> THEN [Dir |-> "/", Name |-> ""]
        ELSE [Dir |-> "/" \o Join(SubSeq(segs, 1, Len(segs) - 1), "/"),
              Name |-> segs[Len(segs)]]

(* extractor.go 33-58: extractFile writes the entry at                     *)
(* filepath.Join(destDir, file.Name), creating the directories above it    *)
(* and truncating a file of the same name                                  *)
WriteEntry(fsys, destDir, entry) ==
    LET destPath == JoinPath(destDir, entry.Name)
        files == IF destPath.Dir \in DOMAIN fsys THEN fsys[destPath.Dir]
                 ELSE EmptyMap
    IN  [d \in DOMAIN fsys \cup {destPath.Dir} |->
            IF d = destPath.Dir
            THEN [n \in DOMAIN files \cup {destPath.Name} |->
                     IF n = destPath.Name THEN entry.Content ELSE files[n]]
            ELSE fsys[d]]

(* Key sequences in which a key may come twice *)
OrdersWithRepeats(S) == [1..Cardinality(S) -> S]

(* All orders in which the keys of a Go map can be ranged over *)
Orders(S) ==
    {s \in [1..Cardinality(S) -> S] :
        \A i, j \in DOMAIN s : i # j => s[i] # s[j]}

NilSettings == [Nil |-> TRUE, Doc |-> ModelSettings(<<>>, <<>>, <<>>, <<>>)]

(* Parse3MF returns (nil, e): the deferred CleanupTemp, once registered,    *)
(* runs on the way out                                                     *)
ReturnError(e) ==
    /\ err' = e
    /\ result' = NilResult
    /\ pc' = "done"

-----------------------------------------------------------------------------
(* Parse3MF, step by step *)

(* extractor.go 12-15: zip.OpenReader fails *)
OpenReaderFails ==
    /\ pc = "start"
    /\ ReturnError("failed to extract 3MF archive: failed to open 3MF archive")
    /\ UNCHANGED <<archive, fs, tempDir, entryIdx, model, settings, plateMap,
                   buildIdx>>

(* extractor.go 18-21: os.MkdirTemp fails, nothing was created *)
MkdirTempFails ==
    /\ pc = "start"
    /\ ReturnError("failed to extract 3MF archive: failed to create temp directory")
    /\ UNCHANGED <<archive, fs, tempDir, entryIdx, model, settings, plateMap,
                   buildIdx>>

(* extractor.go 12-21: the archive opens and a fresh scratch directory is   *)
(* created                                                                 *)
MkdirTemp ==
    /\ pc = "start"
    /\ \E d \in TempNames \ DOMAIN fs :
        /\ fs' = [n \in DOMAIN fs \cup {d} |-> IF n = d THEN EmptyMap ELSE fs[n]]
        /\ tempDir' = d
    /\ entryIdx' = 1
    /\ pc' = "extract"
    /\ UNCHANGED <<archive, model, settings, plateMap, buildIdx, result, err>>

(* extractor.go 23-28: one entry is written *)
ExtractFile ==
    /\ pc = "extract"
    /\ entryIdx <= Len(archive)
    /\ fs' = WriteEntry(fs, tempDir, archive[entryIdx])
    /\ entryIdx' = entryIdx + 1
    /\ UNCHANGED <<archive, tempDir, pc, model, settings, plateMap, buildIdx,
                   result, err>>

(* extractor.go 24-27: an entry fails to extract; the partial tree is       *)
(* removed and Parse3MF returns before its defer is registered             *)
ExtractFileFails ==
    /\ pc = "extract"
    /\ entryIdx <= Len(archive)
    /\ fs' = RemoveAll(fs, tempDir)
    /\ ReturnError("failed to extract 3MF archive: failed to extract file")
    /\ UNCHANGED <<archive, tempDir, entryIdx, model, settings, plateMap,
                   buildIdx>>

(* extractor.go 30, parser.go 9-13: ExtractArchive returns the directory    *)
(* and Parse3MF defers CleanupTemp                                         *)
ExtractArchiveReturns ==
    /\ pc = "extract"
    /\ entryIdx > Len(archive)
    /\ pc' = "parseModel"
    /\ UNCHANGED <<archive, fs, tempDir, entryIdx, model, settings, plateMap,
                   buildIdx, result, err>>

(* model_parser.go 12-30, parser.go 15-18: ParseModel3D *)
ParseModel3D ==
    /\ pc = "parseModel"
    /\ LET files == fs[tempDir]
       IN  IF MainPath \notin DOMAIN files \/ ~files[MainPath].Valid
           THEN /\ ReturnError("failed to parse main model")
                /\ fs' = CleanupTemp(fs, tempDir)
                /\ UNCHANGED model
           ELSE /\ model' = [Nil |-> FALSE, Doc |-> files[MainPath].Doc]
                /\ pc' = "parseSettings"
                /\ UNCHANGED <<fs, result, err>>
    /\ UNCHANGED <<archive, tempDir, entryIdx, settings, plateMap, buildIdx>>

(* model_parser.go 32-50, parser.go 20-23: ParseModelSettings *)
ParseModelSettings ==
    /\ pc = "parseSettings"
    /\ LET files == fs[tempDir]
       IN  IF SettingsPath \notin DOMAIN files \/ ~files[SettingsPath].Valid
           THEN /\ ReturnError("failed to parse model settings")
                /\ fs' = CleanupTemp(fs, tempDir)
                /\ UNCHANGED settings
           ELSE /\ settings' = [Nil |-> FALSE, Doc |-> files[SettingsPath].Doc]
                /\ pc' = "index"
                /\ UNCHANGED <<fs, result, err>>
    /\ UNCHANGED <<archive, tempDir, entryIdx, model, plateMap, buildIdx>>

(* parser.go 25-54: the plate map and the lookup indexes are built *)
BuildIndexes ==
    /\ pc = "index"
    /\ plateMap' = InitialPlateMap(settings.Doc.Plates)
    /\ buildIdx' = 1
    /\ pc' = "build"
    /\ UNCHANGED <<archive, fs, tempDir, entryIdx, model, settings, result, err>>

(* parser.go 56-89: one iteration of the loop over model.Build *)
ProcessBuildItem ==
    /\ pc = "build"
    /\ buildIdx <= Len(model.Doc.Build)
    /\ LET buildItem == model.Doc.Build[buildIdx]
           modelObj == LookupModelObject(model.Doc.Resources, buildItem.ObjectID)
           kind == KindOf(fs[tempDir], modelObj.Obj,
                          PartNameMap(settings.Doc.Parts),
                          PartFileMap(settings.Doc.Parts))
           plateObject == PlateObjectOf(fs[tempDir], buildItem, modelObj.Obj,
                                        settings.Doc)
       IN  IF modelObj.Nil
           THEN /\ buildIdx' = buildIdx + 1
                /\ UNCHANGED <<fs, pc, plateMap, result, err>>
           ELSE IF kind.Err # "nil"
           THEN /\ ReturnError("failed to process assembly components")
                /\ fs' = CleanupTemp(fs, tempDir)
                /\ UNCHANGED <<buildIdx, plateMap>>
           ELSE /\ \E plateID \in findPlateForObject(buildItem.ObjectID,
                                      InstanceToPlateMap(settings.Doc.Instances),
                                      plateMap) :
                        plateMap' = AddToPlate(plateMap, plateID, plateObject)
                /\ buildIdx' = buildIdx + 1
                /\ UNCHANGED <<fs, pc, result, err>>
    /\ UNCHANGED <<archive, tempDir, entryIdx, model, settings>>

(* parser.go 91-95: the plates are emitted in map order, the deferred       *)
(* CleanupTemp runs and Parse3MF returns the result                        *)
ReturnResult ==
    /\ pc = "build"
    /\ buildIdx > Len(model.Doc.Build)
    /\ \E order \in Orders(DOMAIN plateMap) :
        result' = [Nil |-> FALSE,
                   Plates |-> [i \in DOMAIN order |-> plateMap[order[i]]]]
    /\ err' = "nil"
    /\ fs' = CleanupTemp(fs, tempDir)
    /\ pc' = "done"
    /\ UNCHANGED <<archive, tempDir, entryIdx, model, settings, plateMap, buildIdx>>

-----------------------------------------------------------------------------
(* GroupObjectsByName, one loop iteration per step *)

(* A key that ignores the kind *)
GroupKeyNameOnly(obj) == obj.Name

(* The map key of an object: name and kind joined by a bar *)
GroupKey(obj) == obj.Name \o "|" \o obj.Type

(* A loop body that updates its copy of the group and never stores it *)
AddToGroupsCopyOnly(grps, obj) ==
    LET key == GroupKey(obj)
    IN  IF key \in DOMAIN grps
        THEN grps
        ELSE [k \in DOMAIN grps \cup {key} |->
                IF k = key
                THEN [Name |-> obj.Name, Type |-> obj.Type, Material |-> "",
                      Count |-> 1, Components |-> obj.Components,
                      ObjectIDs |-> <<obj.ID>>]
                ELSE grps[k]]

(* The body of the loop: extend the group of the key, or seed a new one *)
AddToGroups(grps, obj) ==
    LET key == GroupKey(obj)
    IN  IF key \in DOMAIN grps
        THEN [grps EXCEPT ![key].Count = @ + 1,
                          ![key].ObjectIDs = Append(@, obj.ID)]
        ELSE [k \in DOMAIN grps \cup {key} |->
                IF k = key
                THEN [Name |-> obj.Name, Type |-> obj.Type, Material |-> "",
                      Count |-> 1, Components |-> obj.Components,
                      ObjectIDs |-> <<obj.ID>>]
                ELSE grps[k]]

GroupStep ==
    /\ gpc = "loop"
    /\ objIdx <= Len(objects)
    /\ groups' = AddToGroups(groups, objects[objIdx])
    /\ objIdx' = objIdx + 1
    /\ UNCHANGED <<objects, gpc>>

GroupReturn ==
    /\ gpc = "loop"
    /\ objIdx > Len(objects)
    /\ gpc' = "done"
    /\ UNCHANGED <<objects, groups, objIdx>>

-----------------------------------------------------------------------------
(* The bounded input domains *)

Paths == {"", SubPath, StlPath}

ComponentPool == [ObjectID : {1}, Path : Paths]

ComponentLists == SeqUpTo(ComponentPool, MaxComponents)

(* The resource whose shape varies: mesh or not, components or not *)
ShapedResources ==
    {ModelObject(1, "", mesh, comps) :
        mesh \in BOOLEAN,
        comps \in {NoComponents} \cup
                  {ComponentsCollection(cs) : cs \in ComponentLists}}

Bracket == ModelObject(2, "Bracket", TRUE, NoComponents)

ResourceTables ==
    {<<>>} \cup {<<r>> : r \in ShapedResources}
           \cup {<<r, Bracket>> : r \in ShapedResources}

BuildLists == SeqUpTo([ObjectID : {1, 2}, Printable : {"nil"}], MaxBuild)

PartLists ==
    {<<>>} \cup {<<[ID |-> 1, Name |-> "Part", SourceFile |-> p]>> : p \in Paths}

SubModel == Model3D(<<ModelObject(1, "Sub", TRUE, NoComponents)>>, <<>>)

(* A sub-assembly document whose first resource of id 1 has no name *)
UnnamedSubModel ==
    Model3D(<<ModelObject(1, "", TRUE, NoComponents),
              ModelObject(2, "Other", TRUE, NoComponents),
              ModelObject(1, "Second", TRUE, NoComponents)>>, <<>>)

SubEntries ==
    {<<>>} \cup
    {<<[Name |-> SubPath, Content |-> c]>> :
        c \in {Malformed, Valid(Model3D(<<>>, <<>>)), Valid(SubModel),
               Valid(UnnamedSubModel)}}

Plate1 == Plate(1, "Plate 1", <<>>, <<>>)

Plate2 == Plate(2, "Plate 2", <<>>, <<>>)

DefaultSettings == ModelSettings(<<Plate1>>, <<>>, <<>>, <<>>)

DefaultModel ==
    Model3D(<<ModelObject(1, "", FALSE,
                 ComponentsCollection(<<[ObjectID |-> 1, Path |-> StlPath]>>)),
              Bracket>>,
            <<[ObjectID |-> 1, Printable |-> "false"],
              [ObjectID |-> 2, Printable |-> "true"]>>)

MainEntry(c) == <<[Name |-> MainPath, Content |-> c]>>

SettingsEntry(c) == <<[Name |-> SettingsPath, Content |-> c]>>

(* Packages that vary the resources, the build list, the part index and the *)
(* sub-assembly document                                                   *)
AssemblyArchives ==
    {MainEntry(Valid(Model3D(rt, bl)))
        \o SettingsEntry(Valid(ModelSettings(<<Plate1>>, <<>>, <<>>, parts)))
        \o sub :
        rt \in ResourceTables, bl \in BuildLists, parts \in PartLists,
        sub \in SubEntries}

(* Instance entries: none, one, two for one object, and entries whose     *)
(* metadata names another plate or another object                          *)
InstanceLists ==
    {<<>>,
     <<ModelInstance(1, 2, <<>>)>>,
     <<ModelInstance(1, 1, <<>>), ModelInstance(1, 2, <<>>)>>,
     <<ModelInstance(1, 1, <<MetadataEntry("instance_id", "2")>>)>>,
     <<ModelInstance(2, 1, <<MetadataEntry("object_id", "1"),
                             MetadataEntry("instance_id", "2")>>)>>,
     <<ModelInstance(1, 2, <<MetadataEntry("instance_id", "x")>>)>>}

TwinPart == [ID |-> 1, Name |-> "", SourceFile |-> "", Metadata |-> <<>>]

(* Packages that vary the plates, the instances and the object names *)
PlateArchives ==
    {MainEntry(Valid(DefaultModel))
        \o SettingsEntry(Valid(ModelSettings(plates, instances, objs, <<>>))) :
        plates \in {<<>>, <<Plate1>>, <<Plate1, Plate2>>},
        instances \in InstanceLists,
        objs \in {<<>>,
                  <<ObjectMeta(2, <<MetadataEntry("name", "Widget")>>, <<>>)>>,
                  <<ObjectMeta(2, <<MetadataEntry("name", "Assembly")>>,
                               <<TwinPart, TwinPart>>)>>}}

(* Plate declarations with a repeated id, nested instances and metadata    *)
(* overrides                                                               *)
PlateLists ==
    {<<Plate1, Plate2, Plate(1, "Copy", <<>>, <<>>)>>,
     <<Plate1, Plate(2, "Plate 2", <<>>,
                     <<ModelInstance(2, 2, <<>>)>>)>>,
     <<Plate(1, "Plate 1", <<MetadataEntry("plater_id", "7"),
                             MetadataEntry("plater_name", "Front")>>, <<>>)>>,
     <<Plate(1, "Plate 1", <<MetadataEntry("plater_id", "x")>>, <<>>)>>,
     <<Plate(0, "", <<MetadataEntry("plater_id", "1")>>,
             <<ModelInstance(1, 0, <<>>)>>),
       Plate(0, "", <<MetadataEntry("plater_id", "2")>>,
             <<ModelInstance(2, 0, <<>>)>>)>>}

PlateMetaArchives ==
    {MainEntry(Valid(DefaultModel))
        \o SettingsEntry(Valid(ModelSettings(plates, <<>>, <<>>, <<>>))) :
        plates \in PlateLists}

NamedObjectLists ==
    {<<>>} \cup
    {<<ObjectMeta(id, metadata, <<>>)>> :
        id \in {1, 2},
        metadata \in {<<>>, <<MetadataEntry("name", "")>>,
                      <<MetadataEntry("name", "Widget")>>}}

NamedPartLists ==
    {<<>>} \cup
    {<<[ID |-> id, Name |-> name, SourceFile |-> ""]>> :
        id \in {1, 2}, name \in {"", "Part"}}

(* Packages that vary the three sources of an object's name *)
NameArchives ==
    {MainEntry(Valid(Model3D(<<ModelObject(1, name, TRUE, NoComponents)>>,
                             <<[ObjectID |-> 1, Printable |-> "nil"]>>)))
        \o SettingsEntry(Valid(ModelSettings(<<Plate1>>, <<>>, objs, parts))) :
        name \in {"", "Bracket"}, objs \in NamedObjectLists,
        parts \in NamedPartLists}

(* Entry names with "." and ".." segments and an absolute name; none of    *)
(* them resolves to the path of another entry of its package               *)
EscapingNames ==
    {"../evil.txt", "/etc/passwd", "3D/./notes.txt",
     "3D/../../3mf_9/" \o MainPath}

(* Well-formed packages with one more entry under such a name *)
EscapingArchives ==
    {MainEntry(Valid(DefaultModel)) \o SettingsEntry(Valid(DefaultSettings))
        \o <<[Name |-> n, Content |-> Malformed]>> :
        n \in EscapingNames}

(* Packages with a required document missing or malformed *)
BrokenArchives ==
    {main \o sett :
        main \in {<<>>, MainEntry(Malformed), MainEntry(Valid(DefaultModel))},
        sett \in {<<>>, SettingsEntry(Malformed)}}
    \cup
    {main \o SettingsEntry(Valid(DefaultSettings)) :
        main \in {<<>>, MainEntry(Malformed)}}

Archives ==
    AssemblyArchives \cup PlateArchives \cup PlateMetaArchives
        \cup NameArchives \cup EscapingArchives \cup BrokenArchives

GroupObjectPool ==
    [ID : {1, 2}, Name : {"a", "a|mesh"}, Type : {"mesh", "assembly", ""},
     Material : {"", "PLA"}, Printable : {TRUE}, Components : {<<>>}]

ObjectLists == SeqUpTo(GroupObjectPool, MaxObjects)

(* The metadata of an object or part: no name, an empty name, a name, a   *)
(* name behind another key                                                 *)
NameMetadata(name) ==
    {<<>>, <<MetadataEntry("name", "")>>, <<MetadataEntry("name", name)>>,
     <<MetadataEntry("extruder", "1"), MetadataEntry("name", name)>>}

PartMetaPool ==
    [ID : {1}, Name : {""}, SourceFile : {""}, Metadata : NameMetadata("Cube")]

ObjectMetas ==
    {ObjectMeta(id, metadata, parts) :
        id \in {1, 2}, metadata \in NameMetadata("Widget"),
        parts \in SeqUpTo(PartMetaPool, MaxParts)}

Separators == {" ", "\t", " " \o " ", "\r" \o "\t"}

(* Numerals and other tokens *)
TokenPool ==
    {"1", "0", "-2.5", "+3", ".5", "5.", "1.0", "1e2", "2E-1", "1e999",
     "abc", "1,5", "--1", "e5", "."}

(* Transform strings of any number of tokens, with and without white       *)
(* space around them                                                       *)
CountedStrings ==
    {pad \o Join([i \in 1..n |-> "1"], sep) \o pad :
        n \in 0..MaxTokens, sep \in Separators, pad \in {"", " ", "\t"}}

(* Transform strings of twelve tokens, two of them drawn from the pool *)
TwelveTokenStrings ==
    {Join([k \in 1..TransformSize |->
              IF k = i THEN a ELSE IF k = j THEN b ELSE "0"], " ") :
        i \in 1..TransformSize, j \in 1..TransformSize,
        a \in TokenPool, b \in {"abc", "7"}}

TransformStrings == CountedStrings \cup TwelveTokenStrings

-----------------------------------------------------------------------------
(* File names (internal/bitrix/catalog.go).  A file name is a sequence of  *)
(* runes; a rune is written as its character, or as U+XXXX when it is not  *)
(* a printable ASCII character.                                            *)

LineFeed == "U+000A"

Tab == "U+0009"

FormFeed == "U+000C"

CarriageReturn == "U+000D"

(* Cyrillic small letter ha *)
CyrillicHa == "U+0445"

(* The runes of a string of printable ASCII characters *)
Runes(s) == [i \in 1..Len(s) |-> SubSeq(s, i, i)]

(* The string of a sequence of one-character runes *)
RECURSIVE StringOf(_)
StringOf(runes) ==
    IF runes = <<>> THEN ""
    ELSE runes[1] \o StringOf(Tail(runes))

(* strings.HasSuffix on rune sequences *)
HasSuffixRunes(s, suffix) ==
    /\ Len(s) >= Len(suffix)
    /\ SubSeq(s, Len(s) - Len(suffix) + 1, Len(s)) = suffix

(* strings.TrimSuffix *)
TrimSuffix(s, suffix) ==
    IF HasSuffixRunes(s, suffix) THEN SubSeq(s, 1, Len(s) - Len(suffix))
    ELSE s

(* filepath.Ext: the suffix beginning at the final dot in the final *)
(* element of path; empty when there is no dot                       *)
Ext(path) ==
    LET dots == {i \in DOMAIN path :
                    /\ path[i] = "."
                    /\ \A j \in i..Len(path) : path[j] # "/"}
    IN  IF dots = {} THEN <<>>
        ELSE SubSeq(path, CHOOSE i \in dots : \A j \in dots : j <= i,
                    Len(path))

(* \d of the regular expression *)
IsDigit(r) == DigitOf(r) >= 0

(* \s of the regular expression: [\t\n\f\r ] *)
IsRegexSpace(r) == r \in {Tab, LineFeed, FormFeed, CarriageReturn, " "}

(* The end of the run of digits that begins at s[i] *)
RECURSIVE DigitRunEnd(_, _)
DigitRunEnd(s, i) ==
    IF i <= Len(s) /\ IsDigit(s[i]) THEN DigitRunEnd(s, i + 1) ELSE i

(* quantityRegex.FindStringSubmatch for ^(\d+)[x<ha>][_\s](.+)$ : the   *)
(* whole match and the two groups, or nothing; the digits are followed  *)
(* by a letter, so the greedy run of digits is the only possible group; *)
(* "." matches every rune but the line feed, and "$" only the end of    *)
(* the text                                                             *)
FindStringSubmatch(s) ==
    LET d == DigitRunEnd(s, 1)
    IN  IF /\ d > 1
           /\ d + 2 <= Len(s)
           /\ s[d] \in {"x", CyrillicHa}
           /\ s[d + 1] = "_" \/ IsRegexSpace(s[d + 1])
           /\ \A i \in (d + 2)..Len(s) : s[i] # LineFeed
        THEN <<s, SubSeq(s, 1, d - 1), SubSeq(s, d + 2, Len(s))>>
        ELSE <<>>

(* catalog.go 25-55 *)
ParseFileName(name) ==
    LET nameWithoutExt == TrimSuffix(name, Ext(name))
        matches == FindStringSubmatch(nameWithoutExt)
        parsed == ParseFloat(StringOf(matches[2]))
    IN  IF Len(matches) = 3 /\ parsed.Err = "nil" /\ parsed.Val.Mant > 0
        THEN [cleanName |-> matches[3], quantity |-> parsed.Val]
        ELSE [cleanName |-> nameWithoutExt, quantity |-> Float(1, 0)]

(* The file names ParseFileName is called on: digits, a multiplication *)
(* sign, a separator, a rest and an extension, each of them optional    *)
DigitPieces == {<<>>, <<"0">>, <<"2">>, <<"1", "0">>, <<"0", "0", "7">>}

SignPieces == {<<>>, <<"x">>, <<CyrillicHa>>, <<"X">>}

SeparatorPieces ==
    {<<>>, <<"_">>, <<" ">>, <<Tab>>, <<LineFeed>>, <<"-">>}

RestPieces ==
    {<<>>, Runes("a"), Runes("a.b"), <<"a", LineFeed, "b">>,
     Runes("3x_b"), Runes("v.1/a")}

ExtPieces == {<<>>, Runes(".stl"), Runes(".STEP")}

FileNames ==
    {d \o x \o sep \o rest \o ext :
        d \in DigitPieces, x \in SignPieces, sep \in SeparatorPieces,
        rest \in RestPieces, ext \in ExtPieces}

-----------------------------------------------------------------------------
(* Directory trees (cmd/crm_add_items.go, find3DFiles) *)

MaxEntries == 3

(* The capital and the small Latin letters *)
Upper == Runes("ABCDEFGHIJKLMNOPQRSTUVWXYZ")

Lower == Runes("abcdefghijklmnopqrstuvwxyz")

(* The runes of the model in the order of their code points, which is *)
(* the order of their UTF-8 encodings                                 *)
RuneOrder ==
    <<Tab, LineFeed, FormFeed, CarriageReturn, " ", "-", ".", "/">>
        \o Runes("0123456789") \o Upper \o <<"_">> \o Lower
        \o <<CyrillicHa>>

(* The position of a rune in a sequence of distinct runes, 0 if absent *)
IndexOf(seq, r) ==
    IF \E i \in DOMAIN seq : seq[i] = r
    THEN CHOOSE i \in DOMAIN seq : seq[i] = r
    ELSE 0

(* unicode.ToLower on the runes of the model *)
ToLowerRune(r) ==
    IF IndexOf(Upper, r) > 0 THEN Lower[IndexOf(Upper, r)] ELSE r

(* strings.ToLower *)
ToLower(s) == [i \in 1..Len(s) |-> ToLowerRune(s[i])]

(* a < b on strings: the byte-wise lexicographic order *)
RECURSIVE StringLess(_, _)
StringLess(a, b) ==
    IF b = <<>> THEN FALSE
    ELSE IF a = <<>> THEN TRUE
    ELSE IF a[1] = b[1] THEN StringLess(Tail(a), Tail(b))
    ELSE IndexOf(RuneOrder, a[1]) < IndexOf(RuneOrder, b[1])

(* An entry of the file system: a directory with its entries, a regular *)
(* file or a symbolic link; a directory may be unreadable               *)
Entry(name, kind, entries, readable) ==
    [Name |-> name, Kind |-> kind, Entries |-> entries,
     Readable |-> readable]

RegularFile(name) == Entry(Runes(name), "file", {}, TRUE)

Symlink(name) == Entry(Runes(name), "symlink", {}, TRUE)

Directory(name, entries, readable) ==
    Entry(Runes(name), "dir", entries, readable)

(* The argument names nothing: os.Lstat fails *)
NoEntry == Entry(<<>>, "none", {}, FALSE)

(* fs.DirEntry.IsDir *)
IsDir(d) == d.Kind = "dir"

(* os.ReadDir: the entries of a directory sorted by file name *)
ReadDir(d) ==
    CHOOSE s \in Orders(d.Entries) :
        \A i, j \in DOMAIN s : i < j => StringLess(s[i].Name, s[j].Name)

(* A call of the WalkDirFunc: the entry d and the error err *)
FnCall(d, e) == [Entry |-> d, Err |-> e]

(* filepath.walkDir: the calls of the callback for the tree under d, as  *)
(* long as the callback returns nil: d itself, and for a directory the   *)
(* error of ReadDir or the trees of its entries in ReadDir's order       *)
RECURSIVE walkDir(_)
RECURSIVE walkDirEntries(_)
walkDir(d) ==
    <<FnCall(d, "nil")>> \o
        (IF ~IsDir(d) THEN <<>>
         ELSE IF ~d.Readable THEN <<FnCall(d, "permission denied")>>
         ELSE walkDirEntries(ReadDir(d)))

walkDirEntries(dirs) ==
    IF dirs = <<>> THEN <<>>
    ELSE walkDir(dirs[1]) \o walkDirEntries(Tail(dirs))

(* filepath.WalkDir(root, fn): the calls of the callback *)
WalkDir(root) ==
    IF root = NoEntry
    THEN <<FnCall(NoEntry, "no such file or directory")>>
    ELSE walkDir(root)

(* The suffix test of the callback, on the exact spelling of the name *)
Is3DNameCaseSensitive(name) ==
    HasSuffixRunes(name, Runes(".stl")) \/ HasSuffixRunes(name, Runes(".step"))

(* crm_add_items.go 203-204: the suffix test of the callback *)
Is3DName(name) ==
    LET lowerName == ToLower(name)
    IN  HasSuffixRunes(lowerName, Runes(".stl"))
            \/ HasSuffixRunes(lowerName, Runes(".step"))

(* crm_add_items.go 216-220: the less function of sort.Slice *)
LessByCleanName(a, b) ==
    StringLess(ToLower(ParseFileName(a).cleanName),
               ToLower(ParseFileName(b).cleanName))

(* sort.Slice(files, less): the sort is not stable, so the result is any *)
(* permutation of files in which no element is less than an earlier one  *)
SortSlice(files) ==
    {[i \in 1..Len(files) |-> files[p[i]]] :
        p \in {q \in Orders(1..Len(files)) :
                \A i, j \in 1..Len(files) :
                    i < j => ~LessByCleanName(files[q[j]], files[q[i]])}}

(* crm_add_items.go 194-209: filepath.WalkDir calls the callback *)
WalkDirFn ==
    /\ wpc = "WalkDir"
    /\ walkIdx <= Len(WalkDir(walkRoot))
    /\ LET call == WalkDir(walkRoot)[walkIdx]
       IN  IF call.Err # "nil"
           THEN /\ walkErr' = call.Err
                /\ wpc' = "walked"
                /\ UNCHANGED <<walkIdx, files3D>>
           ELSE /\ walkIdx' = walkIdx + 1
                /\ files3D' =
                     IF ~IsDir(call.Entry) /\ Is3DName(call.Entry.Name)
                     THEN Append(files3D, call.Entry.Name)
                     ELSE files3D
                /\ UNCHANGED <<walkErr, wpc>>
    /\ UNCHANGED <<walkRoot, found>>

(* filepath.WalkDir has walked the whole tree and returns nil *)
WalkDirReturns ==
    /\ wpc = "WalkDir"
    /\ walkIdx > Len(WalkDir(walkRoot))
    /\ wpc' = "walked"
    /\ UNCHANGED <<walkRoot, walkIdx, files3D, walkErr, found>>

(* crm_add_items.go 211-213: return nil, err *)
ReturnWalkError ==
    /\ wpc = "walked"
    /\ walkErr # "nil"
    /\ found' = <<>>
    /\ wpc' = "done"
    /\ UNCHANGED <<walkRoot, walkIdx, files3D, walkErr>>

(* crm_add_items.go 215-222: sort.Slice and return files3D, nil *)
SortAndReturn ==
    /\ wpc = "walked"
    /\ walkErr = "nil"
    /\ found' \in SortSlice(files3D)
    /\ files3D' = found'
    /\ wpc' = "done"
    /\ UNCHANGED <<walkRoot, walkIdx, walkErr>>

(* The entries of the directories find3DFiles is called on *)
LeafEntries ==
    {RegularFile("b.stl"), RegularFile("2x_a.STL"), RegularFile("c.step"),
     RegularFile("10x_B.Step"), RegularFile("x.stl.bak"),
     RegularFile("x.stp"), RegularFile("stl"), RegularFile(".stl"),
     Symlink("l.stl"), Symlink("l.txt")}

(* Directories of files, links and empty directories *)
FlatTrees ==
    {Directory("models", entries, TRUE) :
        entries \in {S \in SUBSET (LeafEntries
                                     \cup {Directory("empty.stl", {}, TRUE)}) :
                        Cardinality(S) <= MaxEntries}}

(* Directories with a subdirectory that has a subdirectory itself *)
DeepTrees ==
    {Directory("models",
               {top, Directory("parts", {middle,
                                         Directory("old.step", {bottom},
                                                   deepReadable)},
                               readable)},
               TRUE) :
        top \in LeafEntries, middle \in LeafEntries, bottom \in LeafEntries,
        readable \in BOOLEAN, deepReadable \in BOOLEAN}

Trees == FlatTrees \cup DeepTrees \cup {NoEntry}

-----------------------------------------------------------------------------
(* The Bitrix24 client (internal/bitrix).  The remote side is the catalog *)
(* with its sections and products, the product rows of the deal and the   *)
(* warehouse; every request of the client is one step and is logged.      *)
(* Amounts of money are numbers of cents.                                 *)

MaxRows == 2

MaxFiles == 2

(* The double quote *)
Quote == "U+0022"

(* PRODUCT_NAME_PREFIX, catalog.go 20: the Cyrillic word and a space *)
PRODUCT_NAME_PREFIX ==
    <<"U+0418", "U+0437", "U+0434", "U+0435", "U+043B", "U+0438", "U+0435",
      " ">>

(* COMPANIES_FOLDER_NAME, catalog.go 23 *)
COMPANIES_FOLDER_NAME ==
    <<"U+041A", "U+043E", "U+043C", "U+043F", "U+0430", "U+043D", "U+0438",
      "U+0438">>

(* fmt.Sprintf("%d", n) *)
Itoa(n) == ToString(n)

(* The whole number a float64 without a fraction holds *)
Units(f) == f.Mant * Pow10(f.Exp)

(* fmt.Sprintf("%.0f", quantity) for a whole quantity *)
FormatQuantity(f) == Runes(ToString(Units(f)))

(* strings.EqualFold on the runes of the model *)
EqualFold(a, b) == ToLower(a) = ToLower(b)

(* types.go 25-29: ProductSection; ParentID is nil or a pointer to an int *)
ProductSection(id, name, parent) ==
    [ID |-> id, Name |-> name, ParentID |-> parent]

NilInt == <<>>

(* types.go 32-36: Product *)
Product(id, name, section) ==
    [ID |-> id, Name |-> name, IblockSectionId |-> section]

(* types.go 39-43: DealProductRow *)
DealProductRow(productID, qty, price) ==
    [ProductID |-> productID, Quantity |-> qty, Price |-> price]

(* catalog.go 14-17: FileInfo *)
FileInfo(name, dirPath) == [FileName |-> Runes(name), DirPath |-> Runes(dirPath)]

(* ProductInfo: the id and the quantity of a product *)
ProductInfo(id, qty) == [ID |-> id, Quantity |-> qty]

(* A logged request: the method and whether the server answered with *)
(* success                                                           *)
Request(method, ok) == [Method |-> method, Ok |-> ok]

(* catalog.go 150-171 *)
FindSectionByName(list, name, parentID) ==
    LET Matches(section) ==
            /\ EqualFold(section.Name, name)
            /\ IF parentID = "" THEN section.ParentID = NilInt
               ELSE /\ section.ParentID # NilInt
                    /\ Itoa(section.ParentID[1]) = parentID
        hits == {i \in DOMAIN list : Matches(list[i])}
    IN  IF hits = {} THEN [Nil |-> TRUE, Section |-> ProductSection(0, <<>>, NilInt)]
        ELSE [Nil |-> FALSE, Section |-> list[Min(hits)]]

(* catalog.go 361-368 *)
FindProductByName(list, name) ==
    LET hits == {i \in DOMAIN list : EqualFold(list[i].Name, name)}
    IN  IF hits = {} THEN [Nil |-> TRUE, Product |-> Product(0, <<>>, NilInt)]
        ELSE [Nil |-> FALSE, Product |-> list[Min(hits)]]

(* strings.ReplaceAll(s, "/", ".") *)
ReplaceSlashes(s) == [i \in 1..Len(s) |-> IF s[i] = "/" THEN "." ELSE s[i]]

(* catalog.go 61-66 *)
formatDirPrefix(dirPath) ==
    IF dirPath = <<>> THEN <<>> ELSE ReplaceSlashes(dirPath) \o <<" ">>

(* catalog.go 82-90 *)
FormatProductNameWithDir(clean, dirPath, qty) ==
    LET nameWithDir == formatDirPrefix(dirPath) \o clean
    IN  IF Units(qty) > 1
        THEN PRODUCT_NAME_PREFIX \o <<Quote>> \o nameWithDir \o <<" ", "Q">>
                \o FormatQuantity(qty) \o <<Quote>>
        ELSE PRODUCT_NAME_PREFIX \o <<Quote>> \o nameWithDir \o <<Quote>>

(* catalog.go 553-566 *)
RECURSIVE CreateDealProductRows(_)
CreateDealProductRows(infos) ==
    IF infos = <<>> THEN <<>>
    ELSE <<DealProductRow(infos[1].ID, infos[1].Quantity, 0)>>
            \o CreateDealProductRows(Tail(infos))

(* The id the server gives to a new section or product: one it has not *)
(* given yet                                                           *)
FreshID(list) ==
    1 + (CHOOSE m \in {0} \cup {list[i].ID : i \in DOMAIN list} :
            \A i \in DOMAIN list : list[i].ID <= m)

(* math.Round(num / den) for den > 0: halves are rounded away from zero *)
Round(num, den) ==
    IF num >= 0 THEN (2 * num + den) \div (2 * den)
    ELSE 0 - ((2 * (0 - num) + den) \div (2 * den))

(* The sum of the quantities of product rows *)
RECURSIVE TotalQuantity(_)
TotalQuantity(rows) ==
    IF rows = <<>> THEN 0
    ELSE Units(rows[1].Quantity) + TotalQuantity(Tail(rows))

(* The warehouse: whether warehouse management is on, the stores, and *)
(* the receipt document with its elements                             *)
Warehouse(mode, stores, document) ==
    [Mode |-> mode, Stores |-> stores, Document |-> document]

NoDocument == [Exists |-> FALSE, Elements |-> <<>>, Confirmed |-> FALSE]

NoWarehouse == Warehouse("N", <<>>, NoDocument)

(* The locals of the functions of the client, before a call *)
NoLocals ==
    [companiesFolderID |-> "", customerSectionID |-> "",
     projectSectionID |-> "", files3D |-> <<>>, existingCatalog |-> <<>>,
     productInfos |-> <<>>, createdCount |-> 0, newProducts |-> <<>>,
     rows |-> <<>>, totalAmount |-> 0, products |-> <<>>, i |-> 0,
     distributedSum |-> 0, store |-> [ID |-> 0, Title |-> "", Active |-> ""],
     documentID |-> ""]

(* The function returns e *)
CrmReturn(e) ==
    /\ cerr' = e
    /\ cpc' = "done"

(* A request that does not change the remote side is sent *)
SendRead(method, ok) ==
    /\ requests' = Append(requests, Request(method, ok))
    /\ UNCHANGED <<sections, catalogProducts, dealRows, warehouse>>

(* catalog.go 371-398, 401-442, 445-474: ListSections of an Ensure         *)
(* function and what follows up to the next request: the id of the section *)
(* found under one of the parents, or the placeholder of a dry run, or the *)
(* step that creates the section                                           *)
EnsureList(position, name, parents, placeholder, idField, created, next, message) ==
    /\ cpc = position
    /\ \E ok \in BOOLEAN :
          /\ SendRead("catalog.section.list", ok)
          /\ IF ~ok
             THEN CrmReturn(message) /\ UNCHANGED locals
             ELSE LET hits == {k \in DOMAIN parents :
                                 ~FindSectionByName(sections, name,
                                                    parents[k]).Nil}
                      section == FindSectionByName(sections, name,
                                                   parents[Min(hits)]).Section
                  IN  IF hits # {}
                      THEN /\ locals' = [locals EXCEPT
                                            ![idField] = Itoa(section.ID)]
                           /\ cpc' = next
                           /\ UNCHANGED cerr
                      ELSE IF dryRun
                      THEN /\ locals' = [locals EXCEPT
                                            ![idField] = placeholder]
                           /\ cpc' = next
                           /\ UNCHANGED cerr
                      ELSE /\ cpc' = created
                           /\ UNCHANGED <<locals, cerr>>
    /\ UNCHANGED dryRun

(* catalog.go 174-234: CreateSection sends catalog.section.add *)
EnsureCreate(position, name, parentID, idField, next, message) ==
    /\ cpc = position
    /\ \E ok \in BOOLEAN :
          /\ requests' = Append(requests, Request("catalog.section.add", ok))
          /\ IF ok
             THEN /\ sections' =
                     Append(sections,
                            ProductSection(FreshID(sections), name,
                                           IF parentID = "" THEN NilInt
                                           ELSE <<Atoi(parentID).Val>>))
                  /\ locals' = [locals EXCEPT
                                   ![idField] = Itoa(FreshID(sections))]
                  /\ cpc' = next
                  /\ UNCHANGED cerr
             ELSE /\ CrmReturn(message)
                  /\ UNCHANGED <<sections, locals>>
    /\ UNCHANGED <<catalogProducts, dealRows, warehouse, dryRun>>

(* The arguments of runCRMAddItems: the customer of the deal, the project *)
(* and the deal                                                           *)
CustomerName == Runes("Acme")

ProjectName == Runes("Rover")

DealID == "7"

(* crm_add_items.go 114: fmt.Sprintf("%s - %s", projectName, dealID) *)
ProjectSectionName == ProjectName \o Runes(" - ") \o Runes(DealID)

(* catalog.go 371-398: EnsureCompaniesFolder up to its request *)
CompaniesListSections ==
    EnsureList("EnsureCompaniesFolder", COMPANIES_FOLDER_NAME, <<"">>,
               "dry-run-companies-folder-id", "companiesFolderID",
               "CreateCompaniesFolder", "EnsureCustomerSection",
               "failed to ensure companies folder")

(* catalog.go 391-397 *)
CompaniesCreateSection ==
    EnsureCreate("CreateCompaniesFolder", COMPANIES_FOLDER_NAME, "",
                 "companiesFolderID", "EnsureCustomerSection",
                 "failed to ensure companies folder")

(* catalog.go 408-434: the customer section is looked for in the *)
(* companies folder and then in the root                         *)
CustomerListSections ==
    EnsureList("EnsureCustomerSection", CustomerName,
               <<locals.companiesFolderID, "">>,
               "dry-run-customer-section-id", "customerSectionID",
               "CreateCustomerSection", "EnsureProjectSection",
               "failed to ensure customer section")

(* catalog.go 435-441 *)
CustomerCreateSection ==
    EnsureCreate("CreateCustomerSection", CustomerName,
                 locals.companiesFolderID, "customerSectionID",
                 "EnsureProjectSection", "failed to ensure customer section")

(* catalog.go 445-466 *)
ProjectListSections ==
    EnsureList("EnsureProjectSection", ProjectSectionName,
               <<locals.customerSectionID>>,
               "dry-run-project-section-id", "projectSectionID",
               "CreateProjectSection", "CreateProductsFrom3DFiles",
               "failed to ensure project section")

(* catalog.go 467-473 *)
ProjectCreateSection ==
    EnsureCreate("CreateProjectSection", ProjectSectionName,
                 locals.customerSectionID, "projectSectionID",
                 "CreateProductsFrom3DFiles",
                 "failed to ensure project section")

(* catalog.go 304-358: the products the server lists for a section *)
ProductsOfSection(sectionID) ==
    LET InSection(p) ==
            /\ p.IblockSectionId # NilInt
            /\ Itoa(p.IblockSectionId[1]) = sectionID
    IN  SelectSeq(catalogProducts, InSection)

(* catalog.go 477-495: CreateProductsFrom3DFiles lists the products of *)
(* the section                                                         *)
ListProducts ==
    /\ cpc = "CreateProductsFrom3DFiles"
    /\ \E ok \in BOOLEAN :
          /\ SendRead("catalog.product.list", ok)
          /\ IF ok
             THEN /\ locals' =
                     [locals EXCEPT
                        !.existingCatalog =
                            ProductsOfSection(locals.projectSectionID)]
                  /\ cpc' = "products"
                  /\ UNCHANGED cerr
             ELSE /\ CrmReturn("failed to create products")
                  /\ UNCHANGED locals
    /\ UNCHANGED dryRun

(* catalog.go 501-541: one file of the loop; a product that is not in *)
(* the list is created unless the run is a dry run                    *)
ProductStep ==
    /\ cpc = "products"
    /\ Len(locals.productInfos) < Len(locals.files3D)
    /\ LET fileInfo == locals.files3D[Len(locals.productInfos) + 1]
           parsed == ParseFileName(fileInfo.FileName)
           productName ==
               FormatProductNameWithDir(parsed.cleanName, fileInfo.DirPath,
                                        parsed.quantity)
           existingProduct ==
               FindProductByName(locals.existingCatalog, productName)
           Collect(id, n) ==
               locals' = [locals EXCEPT
                            !.productInfos =
                                Append(@, ProductInfo(id, parsed.quantity)),
                            !.createdCount = @ + n]
       IN  IF ~existingProduct.Nil
           THEN /\ Collect(Itoa(existingProduct.Product.ID), 0)
                /\ UNCHANGED <<requests, catalogProducts, cpc, cerr>>
           ELSE IF dryRun
           THEN /\ Collect("dry-run-product-"
                               \o Itoa(locals.createdCount + 1), 1)
                /\ UNCHANGED <<requests, catalogProducts, cpc, cerr>>
           ELSE \E ok \in BOOLEAN :
                   /\ requests' =
                        Append(requests, Request("catalog.product.add", ok))
                   /\ IF ok
                      THEN /\ catalogProducts' =
                                Append(catalogProducts,
                                       Product(FreshID(catalogProducts),
                                               productName,
                                               <<Atoi(locals.projectSectionID)
                                                    .Val>>))
                           /\ Collect(Itoa(FreshID(catalogProducts)), 1)
                           /\ UNCHANGED <<cpc, cerr>>
                      ELSE /\ CrmReturn("failed to create products")
                           /\ UNCHANGED <<catalogProducts, locals>>
    /\ UNCHANGED <<sections, dealRows, warehouse, dryRun>>

(* catalog.go 543-549 and crm_add_items.go 159: the products are *)
(* returned and made product rows                                *)
ProductsReturn ==
    /\ cpc = "products"
    /\ Len(locals.productInfos) = Len(locals.files3D)
    /\ locals' = [locals EXCEPT
                    !.newProducts = CreateDealProductRows(locals.productInfos)]
    /\ cpc' = "AddProductRowsToDeal"
    /\ UNCHANGED <<sections, catalogProducts, dealRows, warehouse, requests,
                   dryRun, cerr>>

(* deals.go 238-271: AddProductRowsToDeal reads the rows of the deal; *)
(* when the request fails it goes on with no existing rows            *)
GetExistingRows ==
    /\ cpc = "AddProductRowsToDeal"
    /\ \E ok \in BOOLEAN :
          /\ SendRead("crm.deal.productrows.get", ok)
          /\ LET existingProducts == IF ok THEN dealRows ELSE <<>>
             IN  IF dryRun
                 THEN CrmReturn("nil") /\ UNCHANGED locals
                 ELSE /\ locals' =
                           [locals EXCEPT
                              !.rows = existingProducts \o locals.newProducts]
                      /\ cpc' = "AddProductsToDeal"
                      /\ UNCHANGED cerr
    /\ UNCHANGED dryRun

(* deals.go 185-216: AddProductsToDeal sends crm.deal.productrows.set, *)
(* which replaces the rows of the deal by the rows sent                *)
SetProductRows ==
    /\ cpc = "AddProductsToDeal"
    /\ \E ok \in BOOLEAN :
          /\ requests' =
                Append(requests, Request("crm.deal.productrows.set", ok))
          /\ IF ok
             THEN /\ dealRows' = locals.rows
                  /\ CrmReturn("nil")
             ELSE /\ CrmReturn("failed to add products to deal")
                  /\ UNCHANGED dealRows
    /\ UNCHANGED <<sections, catalogProducts, warehouse, dryRun, locals>>

(* deals.go 274-293: SpreadPriceByCount reads the rows of the deal and *)
(* adds up their quantities                                            *)
SpreadGetRows ==
    /\ cpc = "SpreadPriceByCount"
    /\ \E ok \in BOOLEAN :
          /\ SendRead("crm.deal.productrows.get", ok)
          /\ IF ~ok
             THEN CrmReturn("failed to get existing products")
                    /\ UNCHANGED locals
             ELSE IF dealRows = <<>>
             THEN CrmReturn("no products found in deal") /\ UNCHANGED locals
             ELSE IF TotalQuantity(dealRows) <= 0
             THEN CrmReturn("total quantity is zero or negative")
                    /\ UNCHANGED locals
             ELSE /\ locals' = [locals EXCEPT !.products = dealRows,
                                              !.i = 1,
                                              !.distributedSum = 0]
                  /\ cpc' = "spread"
                  /\ UNCHANGED cerr
    /\ UNCHANGED dryRun

(* The price of the last row, deals.go 306-310 *)
RemainderPrice(q, remainingAmount) == Round(remainingAmount, q)

(* The price of a row but the last, deals.go 322-325: the proportion of *)
(* its quantity times the amount, by unit                               *)
ProportionalPrice(q, totalQuantity, totalAmount) ==
    Round(q * totalAmount, totalQuantity * q)

(* deals.go 303-339: one row of the loop *)
SpreadRow ==
    /\ cpc = "spread"
    /\ locals.i <= Len(locals.products)
    /\ LET q == Units(locals.products[locals.i].Quantity)
           price ==
               IF locals.i = Len(locals.products)
               THEN RemainderPrice(q, locals.totalAmount
                                        - locals.distributedSum)
               ELSE ProportionalPrice(q, TotalQuantity(locals.products),
                                      locals.totalAmount)
       IN  locals' =
              [locals EXCEPT
                 !.products[locals.i].Price = price,
                 !.distributedSum =
                     IF locals.i = Len(locals.products) THEN @
                     ELSE @ + price * q,
                 !.i = @ + 1]
    /\ UNCHANGED <<sections, catalogProducts, dealRows, warehouse, requests,
                   dryRun, cpc, cerr>>

(* SpreadPriceByCount sending the rows in a dry run as well *)
SpreadUpdateIgnoringDryRun ==
    /\ cpc = "spread"
    /\ locals.i > Len(locals.products)
    /\ locals' = [locals EXCEPT !.rows = locals.products]
    /\ cpc' = "AddProductsToDeal"
    /\ UNCHANGED <<sections, catalogProducts, dealRows, warehouse, requests,
                   dryRun, cerr>>

(* deals.go 341-362: after the loop a dry run returns, another run sends *)
(* the rows with their new prices                                        *)
SpreadUpdate ==
    /\ cpc = "spread"
    /\ locals.i > Len(locals.products)
    /\ IF dryRun
       THEN CrmReturn("nil") /\ UNCHANGED locals
       ELSE /\ locals' = [locals EXCEPT !.rows = locals.products]
            /\ cpc' = "AddProductsToDeal"
            /\ UNCHANGED cerr
    /\ UNCHANGED <<sections, catalogProducts, dealRows, warehouse, requests,
                   dryRun>>

(* crm_spread_price.go 163-185: the flag --store-id of crm-add-store *)
StoreID == "1"

(* Store: the id, the title and the activity of a warehouse *)
Store(id, title, active) == [ID |-> id, Title |-> title, Active |-> active]

(* store.go 302-359: what catalog.store.get answers: the store of the id, *)
(* or a store with empty fields                                           *)
FindStore(stores, storeID) ==
    LET hits == {k \in DOMAIN stores : Itoa(stores[k].ID) = storeID}
    IN  IF hits = {} THEN Store(0, "", "")
        ELSE stores[CHOOSE k \in hits : \A h \in hits : k <= h]

(* store.go 183-242: the element catalog.document.element.add adds *)
DocumentElement(product, storeID) ==
    [storeTo |-> storeID, elementId |-> product.ProductID,
     amount |-> product.Quantity, sellingPrice |-> product.Price]

(* crm_spread_price.go 212-221, store.go 12-55: CheckStoreDocumentMode *)
CheckStoreDocumentMode ==
    /\ cpc = "CheckStoreDocumentMode"
    /\ \E ok \in BOOLEAN :
          /\ SendRead("catalog.document.mode.status", ok)
          /\ IF ~ok
             THEN CrmReturn("failed to check warehouse mode")
             ELSE IF warehouse.Mode # "Y"
                  THEN CrmReturn("warehouse management is off")
                  ELSE cpc' = "ListStores" /\ UNCHANGED cerr
    /\ UNCHANGED <<dryRun, locals>>

(* crm_spread_price.go 223-234, store.go 361-414: ListStores *)
ListStores ==
    /\ cpc = "ListStores"
    /\ \E ok \in BOOLEAN :
          /\ SendRead("catalog.store.list", ok)
          /\ IF ~ok
             THEN CrmReturn("no access to the stores")
             ELSE IF Len(warehouse.Stores) = 0
                  THEN CrmReturn("the list of stores is empty")
                  ELSE cpc' = "GetStore" /\ UNCHANGED cerr
    /\ UNCHANGED <<dryRun, locals>>

(* crm_spread_price.go 236-264, store.go 302-359: GetStore and the tests *)
(* of the store it returns                                               *)
GetStore ==
    /\ cpc = "GetStore"
    /\ \E ok \in BOOLEAN :
          /\ SendRead("catalog.store.get", ok)
          /\ IF ~ok
             THEN CrmReturn("failed to get store") /\ UNCHANGED locals
             ELSE LET store == FindStore(warehouse.Stores, StoreID)
                  IN  /\ locals' = [locals EXCEPT !.store = store]
                      /\ IF store.ID = 0 /\ store.Title = ""
                         THEN cpc' = "ListStoresNotFound" /\ UNCHANGED cerr
                         ELSE IF store.Active # "Y"
                              THEN CrmReturn("the store is not active")
                              ELSE /\ cpc' = "GetDealWithAmount"
                                   /\ UNCHANGED cerr
    /\ UNCHANGED dryRun

(* crm_spread_price.go 245-258: the store was not found: the stores are *)
(* listed and the command fails                                         *)
ListStoresNotFound ==
    /\ cpc = "ListStoresNotFound"
    /\ \E ok \in BOOLEAN :
          /\ SendRead("catalog.store.list", ok)
          /\ IF ~ok
             THEN CrmReturn("store not found and no list of stores")
             ELSE CrmReturn("store not found")
    /\ UNCHANGED <<dryRun, locals>>

(* crm_spread_price.go 266-272, deals.go 30-75: GetDealWithAmount *)
GetDealWithAmount ==
    /\ cpc = "GetDealWithAmount"
    /\ \E ok \in BOOLEAN :
          /\ SendRead("crm.deal.get", ok)
          /\ IF ~ok
             THEN CrmReturn("failed to get deal with amount")
             ELSE cpc' = "GetExistingProductRows" /\ UNCHANGED cerr
    /\ UNCHANGED <<dryRun, locals>>

(* crm_spread_price.go 274-296, deals.go 219-235: the rows of the deal  *)
(* are read; without rows the command fails, and a dry run returns here *)
StoreGetProductRows ==
    /\ cpc = "GetExistingProductRows"
    /\ \E ok \in BOOLEAN :
          /\ SendRead("crm.deal.productrows.get", ok)
          /\ IF ~ok
             THEN CrmReturn("failed to get existing products")
                     /\ UNCHANGED locals
             ELSE /\ locals' = [locals EXCEPT !.products = dealRows]
                  /\ IF Len(dealRows) = 0
                     THEN CrmReturn("no products in the deal")
                     ELSE IF dryRun
                          THEN CrmReturn("nil")
                          ELSE /\ cpc' = "CreateStoreDocument"
                               /\ UNCHANGED cerr
    /\ UNCHANGED dryRun

(* crm_spread_price.go 298-304, store.go 57-168: CreateStoreDocument *)
CreateStoreDocument ==
    /\ cpc = "CreateStoreDocument"
    /\ \E ok \in BOOLEAN :
          /\ requests' = Append(requests, Request("catalog.document.add", ok))
          /\ IF ok
             THEN /\ warehouse' =
                        [warehouse EXCEPT
                            !.Document = [NoDocument EXCEPT !.Exists = TRUE]]
                  /\ locals' = [locals EXCEPT !.documentID = "1", !.i = 1]
                  /\ cpc' = "AddElementsToStoreDocument"
                  /\ UNCHANGED cerr
             ELSE /\ CrmReturn("failed to create warehouse document")
                  /\ UNCHANGED <<warehouse, locals>>
    /\ UNCHANGED <<sections, catalogProducts, dealRows, dryRun>>

(* AddElement with the error of addSingleElementToDocument ignored *)
AddElementIgnoringError ==
    /\ cpc = "AddElementsToStoreDocument"
    /\ locals.i <= Len(locals.products)
    /\ \E ok \in BOOLEAN :
          /\ requests' =
                Append(requests, Request("catalog.document.element.add", ok))
          /\ warehouse' =
                IF ok
                THEN [warehouse EXCEPT
                         !.Document.Elements =
                             Append(@, DocumentElement(
                                           locals.products[locals.i],
                                           StoreID))]
                ELSE warehouse
          /\ locals' = [locals EXCEPT !.i = @ + 1]
          /\ cpc' = IF locals.i = Len(locals.products)
                    THEN "ConfirmStoreDocument"
                    ELSE "AddElementsToStoreDocument"
          /\ UNCHANGED cerr
    /\ UNCHANGED <<sections, catalogProducts, dealRows, dryRun>>

(* crm_spread_price.go 309-316, store.go 172-180, 183-242: one turn of   *)
(* the loop of AddElementsToStoreDocument: the product is added with     *)
(* catalog.document.element.add; the first error ends the command, and   *)
(* after the last product the command goes on to confirm the document    *)
AddElement ==
    /\ cpc = "AddElementsToStoreDocument"
    /\ locals.i <= Len(locals.products)
    /\ \E ok \in BOOLEAN :
          /\ requests' =
                Append(requests, Request("catalog.document.element.add", ok))
          /\ IF ok
             THEN /\ warehouse' =
                        [warehouse EXCEPT
                            !.Document.Elements =
                                Append(@, DocumentElement(
                                              locals.products[locals.i],
                                              StoreID))]
                  /\ locals' = [locals EXCEPT !.i = @ + 1]
                  /\ cpc' = IF locals.i = Len(locals.products)
                            THEN "ConfirmStoreDocument"
                            ELSE "AddElementsToStoreDocument"
                  /\ UNCHANGED cerr
             ELSE /\ CrmReturn("failed to add product to document")
                  /\ UNCHANGED <<warehouse, locals>>
    /\ UNCHANGED <<sections, catalogProducts, dealRows, dryRun>>

(* crm_spread_price.go 318-323, store.go 245-299: ConfirmStoreDocument *)
ConfirmStoreDocument ==
    /\ cpc = "ConfirmStoreDocument"
    /\ \E ok \in BOOLEAN :
          /\ requests' =
                Append(requests, Request("catalog.document.confirm", ok))
          /\ IF ok
             THEN /\ warehouse' =
                        [warehouse EXCEPT !.Document.Confirmed = TRUE]
                  /\ CrmReturn("nil")
             ELSE /\ CrmReturn("failed to confirm warehouse document")
                  /\ UNCHANGED warehouse
    /\ UNCHANGED <<sections, catalogProducts, dealRows, dryRun, locals>>

(* The states of the catalog the commands meet: no section, the       *)
(* companies folder, the customer in it (also spelled in capitals) or  *)
(* in the root, and the project section                                *)
CompaniesFolder == ProductSection(1, COMPANIES_FOLDER_NAME, NilInt)

SectionStates ==
    {<<>>,
     <<CompaniesFolder>>,
     <<CompaniesFolder, ProductSection(2, CustomerName, <<1>>)>>,
     <<CompaniesFolder, ProductSection(2, Runes("ACME"), <<1>>)>>,
     <<ProductSection(2, CustomerName, NilInt)>>,
     <<CompaniesFolder, ProductSection(2, CustomerName, <<1>>),
       ProductSection(3, ProjectSectionName, <<2>>)>>}

(* The catalog with every section of the project *)
FullSections ==
    <<CompaniesFolder, ProductSection(2, CustomerName, <<1>>),
      ProductSection(3, ProjectSectionName, <<2>>)>>

(* The files of the directory, as find3DFiles and the caller give them *)
FilePool == {FileInfo("2x_a.stl", ""), FileInfo("b.step", "arms/left")}

FileLists == SeqUpTo(FilePool, MaxFiles) \ {<<>>}

(* The products of the catalog: none, or the product of the file 2x_a.stl *)
(* in the project section                                                 *)
CatalogStates ==
    {<<>>,
     <<Product(10, FormatProductNameWithDir(Runes("a"), <<>>, Float(2, 0)),
               <<3>>)>>}

(* The product rows of the deal *)
RowPool ==
    {DealProductRow("101", Float(1, 0), 0),
     DealProductRow("102", Float(3, 0), 0),
     DealProductRow("103", Float(2, 0), 500)}

DealRowStates == SeqUpTo(RowPool, MaxRows)

(* The amounts of the deal, in cents: greater than 0 *)
Amounts == {1, 2, 9999, 10000}

(* The stores of the warehouse: none, the store of the flag active or *)
(* not, another store only, and both                                  *)
StoreStates ==
    {<<>>,
     <<Store(1, "Main", "Y")>>,
     <<Store(1, "Main", "N")>>,
     <<Store(2, "Spare", "Y")>>,
     <<Store(2, "Spare", "N"), Store(1, "Main", "Y")>>}

(* The warehouses before the command: warehouse management on or off, *)
(* the stores, and no document                                        *)
WarehouseStates ==
    {Warehouse(mode, stores, NoDocument) :
        mode \in {"Y", "N"}, stores \in StoreStates}

-----------------------------------------------------------------------------
(* Specifications *)

FuncIdle(position) ==
    /\ objMeta = ObjectMeta(0, <<>>, <<>>)
    /\ objName = ""
    /\ transformStr = ""
    /\ transform = <<>>
    /\ fpc = position

(* The locals of a Parse3MF call *)
CallState(a, dir, position, idx, m, sett, plates, bidx, res, e) ==
    [archive |-> a, tempDir |-> dir, pc |-> position, entryIdx |-> idx,
     model |-> m, settings |-> sett, plateMap |-> plates, buildIdx |-> bidx,
     result |-> res, err |-> e]

NoCall ==
    CallState(<<>>, "", "idle", 1, NilDoc, NilSettings, EmptyMap, 1,
              NilResult, "nil")

SingleCall ==
    /\ other = NoCall
    /\ self = 1

ParseIdle(position) ==
    /\ fs = EmptyMap
    /\ tempDir = ""
    /\ pc = position
    /\ entryIdx = 1
    /\ model = NilDoc
    /\ settings = NilSettings
    /\ plateMap = EmptyMap
    /\ buildIdx = 1
    /\ result = NilResult
    /\ err = "nil"

GroupIdle(position) ==
    /\ groups = EmptyMap
    /\ objIdx = 1
    /\ gpc = position

NameIdle(position) ==
    /\ fileName = <<>>
    /\ cleanName = <<>>
    /\ quantity = Float(1, 0)
    /\ npc = position

(* No Bitrix24 command is running *)
WalkIdle(position) ==
    /\ walkIdx = 1
    /\ files3D = <<>>
    /\ walkErr = "nil"
    /\ found = <<>>
    /\ wpc = position

(* No command of the Bitrix24 client runs *)
CrmIdle ==
    /\ sections = <<>>
    /\ catalogProducts = <<>>
    /\ dealRows = <<>>
    /\ warehouse = NoWarehouse
    /\ requests = <<>>
    /\ dryRun = FALSE
    /\ command = ""
    /\ cpc = "idle"
    /\ cerr = "nil"
    /\ locals = NoLocals

CliIdle ==
    /\ NameIdle("idle")
    /\ walkRoot = NoEntry
    /\ WalkIdle("idle")
    /\ CrmIdle

(* Parse3MF is called on a package *)
Init ==
    /\ archive \in Archives
    /\ ParseIdle("start")
    /\ objects = <<>>
    /\ GroupIdle("idle")
    /\ FuncIdle("idle")
    /\ SingleCall
    /\ CliIdle

Next ==
    \/ OpenReaderFails /\ UNCHANGED <<groupVars, funcVars, callVars, cliVars>>
    \/ MkdirTempFails /\ UNCHANGED <<groupVars, funcVars, callVars, cliVars>>
    \/ MkdirTemp /\ UNCHANGED <<groupVars, funcVars, callVars, cliVars>>
    \/ ExtractFile /\ UNCHANGED <<groupVars, funcVars, callVars, cliVars>>
    \/ ExtractFileFails /\ UNCHANGED <<groupVars, funcVars, callVars, cliVars>>
    \/ ExtractArchiveReturns /\ UNCHANGED <<groupVars, funcVars, callVars, cliVars>>
    \/ ParseModel3D /\ UNCHANGED <<groupVars, funcVars, callVars, cliVars>>
    \/ ParseModelSettings /\ UNCHANGED <<groupVars, funcVars, callVars, cliVars>>
    \/ BuildIndexes /\ UNCHANGED <<groupVars, funcVars, callVars, cliVars>>
    \/ ProcessBuildItem /\ UNCHANGED <<groupVars, funcVars, callVars, cliVars>>
    \/ ReturnResult /\ UNCHANGED <<groupVars, funcVars, callVars, cliVars>>

Spec == Init /\ [][Next]_vars

(* GroupObjectsByName is called on a list of plate objects *)
InitGroup ==
    /\ archive = <<>>
    /\ ParseIdle("idle")
    /\ objects \in ObjectLists
    /\ GroupIdle("loop")
    /\ FuncIdle("idle")
    /\ SingleCall
    /\ CliIdle

NextGroup ==
    \/ GroupStep /\ UNCHANGED <<parseVars, funcVars, callVars, cliVars>>
    \/ GroupReturn /\ UNCHANGED <<parseVars, funcVars, callVars, cliVars>>

SpecGroup == InitGroup /\ [][NextGroup]_vars

(* The scheduler pauses the running Parse3MF call and resumes the other   *)
(* one, which has not returned yet; the file system is shared              *)
Switch ==
    /\ other.pc \notin {"idle", "done"}
    /\ archive' = other.archive
    /\ tempDir' = other.tempDir
    /\ pc' = other.pc
    /\ entryIdx' = other.entryIdx
    /\ model' = other.model
    /\ settings' = other.settings
    /\ plateMap' = other.plateMap
    /\ buildIdx' = other.buildIdx
    /\ result' = other.result
    /\ err' = other.err
    /\ other' = CallState(archive, tempDir, pc, entryIdx, model, settings,
                          plateMap, buildIdx, result, err)
    /\ self' = 3 - self
    /\ UNCHANGED fs

(* Packages of the concurrent calls: a well-formed one, one with an entry  *)
(* that points into another scratch directory, one without settings        *)
ConcurrentArchives ==
    {MainEntry(Valid(DefaultModel)) \o SettingsEntry(Valid(DefaultSettings)),
     MainEntry(Valid(DefaultModel)) \o SettingsEntry(Valid(DefaultSettings))
        \o <<[Name |-> "3D/../../3mf_2/" \o MainPath, Content |-> Malformed]>>,
     MainEntry(Valid(DefaultModel))}

(* Two goroutines call Parse3MF, on the same or on different packages *)
InitConcurrent ==
    /\ archive \in ConcurrentArchives
    /\ ParseIdle("start")
    /\ objects = <<>>
    /\ GroupIdle("idle")
    /\ FuncIdle("idle")
    /\ \E a \in ConcurrentArchives :
          other = CallState(a, "", "start", 1, NilDoc, NilSettings, EmptyMap,
                            1, NilResult, "nil")
    /\ self = 1
    /\ CliIdle

NextConcurrent ==
    \/ OpenReaderFails /\ UNCHANGED <<groupVars, funcVars, callVars, cliVars>>
    \/ MkdirTempFails /\ UNCHANGED <<groupVars, funcVars, callVars, cliVars>>
    \/ MkdirTemp /\ UNCHANGED <<groupVars, funcVars, callVars, cliVars>>
    \/ ExtractFile /\ UNCHANGED <<groupVars, funcVars, callVars, cliVars>>
    \/ ExtractFileFails /\ UNCHANGED <<groupVars, funcVars, callVars, cliVars>>
    \/ ExtractArchiveReturns /\ UNCHANGED <<groupVars, funcVars, callVars, cliVars>>
    \/ ParseModel3D /\ UNCHANGED <<groupVars, funcVars, callVars, cliVars>>
    \/ ParseModelSettings /\ UNCHANGED <<groupVars, funcVars, callVars, cliVars>>
    \/ BuildIndexes /\ UNCHANGED <<groupVars, funcVars, callVars, cliVars>>
    \/ ProcessBuildItem /\ UNCHANGED <<groupVars, funcVars, callVars, cliVars>>
    \/ ReturnResult /\ UNCHANGED <<groupVars, funcVars, callVars, cliVars>>
    \/ Switch /\ UNCHANGED <<groupVars, funcVars, cliVars>>

SpecConcurrent == InitConcurrent /\ [][NextConcurrent]_vars

(* metadata.go 35-49: getObjectNameFromParts is called and returns *)
CallGetObjectNameFromParts ==
    /\ fpc = "getObjectNameFromParts"
    /\ objName' = getObjectNameFromParts(objMeta)
    /\ fpc' = "done"
    /\ UNCHANGED <<objMeta, transformStr, transform>>

(* getObjectNameFromParts is called on an object of the settings document *)
InitObjectName ==
    /\ archive = <<>>
    /\ ParseIdle("idle")
    /\ objects = <<>>
    /\ GroupIdle("idle")
    /\ objMeta \in ObjectMetas
    /\ objName = ""
    /\ transformStr = ""
    /\ transform = <<>>
    /\ fpc = "getObjectNameFromParts"
    /\ SingleCall
    /\ CliIdle

NextObjectName ==
    CallGetObjectNameFromParts /\ UNCHANGED <<parseVars, groupVars, callVars, cliVars>>

SpecObjectName == InitObjectName /\ [][NextObjectName]_vars

(* model_parser.go 72-93: ParseTransform is called and returns *)
CallParseTransform ==
    /\ fpc = "ParseTransform"
    /\ transform' = ParseTransform(transformStr)
    /\ fpc' = "done"
    /\ UNCHANGED <<objMeta, objName, transformStr>>

(* ParseTransform is called on a transform attribute *)
InitTransform ==
    /\ archive = <<>>
    /\ ParseIdle("idle")
    /\ objects = <<>>
    /\ GroupIdle("idle")
    /\ objMeta = ObjectMeta(0, <<>>, <<>>)
    /\ objName = ""
    /\ transformStr \in TransformStrings
    /\ transform = <<>>
    /\ fpc = "ParseTransform"
    /\ SingleCall
    /\ CliIdle

NextTransform ==
    CallParseTransform /\ UNCHANGED <<parseVars, groupVars, callVars, cliVars>>

SpecTransform == InitTransform /\ [][NextTransform]_vars

(* Every new specification starts with the 3MF parser idle *)
ParserIdle ==
    /\ archive = <<>>
    /\ ParseIdle("idle")
    /\ objects = <<>>
    /\ GroupIdle("idle")
    /\ FuncIdle("idle")
    /\ SingleCall

(* catalog.go 25-55: ParseFileName is called and returns *)
CallParseFileName ==
    /\ npc = "ParseFileName"
    /\ cleanName' = ParseFileName(fileName).cleanName
    /\ quantity' = ParseFileName(fileName).quantity
    /\ npc' = "done"
    /\ UNCHANGED fileName

(* ParseFileName is called on a file name *)
InitFileName ==
    /\ ParserIdle
    /\ fileName \in FileNames
    /\ cleanName = <<>>
    /\ quantity = Float(1, 0)
    /\ npc = "ParseFileName"
    /\ walkRoot = NoEntry
    /\ WalkIdle("idle")
    /\ CrmIdle

NextFileName ==
    CallParseFileName /\ UNCHANGED <<parserVars, walkVars, crmVars>>

SpecFileName == InitFileName /\ [][NextFileName]_vars

(* find3DFiles is called on a path *)
InitFind ==
    /\ ParserIdle
    /\ NameIdle("idle")
    /\ walkRoot \in Trees
    /\ WalkIdle("WalkDir")
    /\ CrmIdle

NextFind ==
    \/ WalkDirFn
        /\ UNCHANGED <<parserVars, nameVars, crmVars>>
    \/ WalkDirReturns
        /\ UNCHANGED <<parserVars, nameVars, crmVars>>
    \/ ReturnWalkError
        /\ UNCHANGED <<parserVars, nameVars, crmVars>>
    \/ SortAndReturn
        /\ UNCHANGED <<parserVars, nameVars, crmVars>>

SpecFind == InitFind /\ [][NextFind]_vars

(* No other part of the program runs while a command of the client does *)
OnlyCrm ==
    /\ ParserIdle
    /\ NameIdle("idle")
    /\ walkRoot = NoEntry
    /\ WalkIdle("idle")

(* crm-add-items has the deal, its customer and the files, and calls   *)
(* EnsureCustomerSection; crm-spread-price has the deal and its amount *)
(* and calls SpreadPriceByCount                                        *)
InitCRM ==
    /\ OnlyCrm
    /\ warehouse = NoWarehouse
    /\ requests = <<>>
    /\ dryRun \in BOOLEAN
    /\ cerr = "nil"
    /\ \/ /\ command = "crm-add-items"
          /\ cpc = "EnsureCompaniesFolder"
          /\ \/ /\ sections \in SectionStates
                /\ catalogProducts \in CatalogStates
                /\ dealRows = <<>>
             \/ /\ sections = FullSections
                /\ catalogProducts \in CatalogStates
                /\ dealRows \in DealRowStates
          /\ \E files \in FileLists :
                locals = [NoLocals EXCEPT !.files3D = files]
       \/ /\ command = "crm-spread-price"
          /\ cpc = "SpreadPriceByCount"
          /\ sections = <<>>
          /\ catalogProducts = <<>>
          /\ dealRows \in DealRowStates
          /\ \E amount \in Amounts :
                locals = [NoLocals EXCEPT !.totalAmount = amount]

NextCRM ==
    \/ CompaniesListSections
        /\ UNCHANGED <<parserVars, nameVars, walkVars, command>>
    \/ CompaniesCreateSection
        /\ UNCHANGED <<parserVars, nameVars, walkVars, command>>
    \/ CustomerListSections
        /\ UNCHANGED <<parserVars, nameVars, walkVars, command>>
    \/ CustomerCreateSection
        /\ UNCHANGED <<parserVars, nameVars, walkVars, command>>
    \/ ProjectListSections
        /\ UNCHANGED <<parserVars, nameVars, walkVars, command>>
    \/ ProjectCreateSection
        /\ UNCHANGED <<parserVars, nameVars, walkVars, command>>
    \/ ListProducts /\ UNCHANGED <<parserVars, nameVars, walkVars, command>>
    \/ ProductStep /\ UNCHANGED <<parserVars, nameVars, walkVars, command>>
    \/ ProductsReturn /\ UNCHANGED <<parserVars, nameVars, walkVars, command>>
    \/ GetExistingRows
        /\ UNCHANGED <<parserVars, nameVars, walkVars, command>>
    \/ SetProductRows /\ UNCHANGED <<parserVars, nameVars, walkVars, command>>
    \/ SpreadGetRows /\ UNCHANGED <<parserVars, nameVars, walkVars, command>>
    \/ SpreadRow /\ UNCHANGED <<parserVars, nameVars, walkVars, command>>
    \/ SpreadUpdate /\ UNCHANGED <<parserVars, nameVars, walkVars, command>>

SpecCRM == InitCRM /\ [][NextCRM]_vars

(* crm_spread_price.go 187-338: crm-add-store has the deal and the store *)
(* and starts with CheckStoreDocumentMode                                *)
InitAddStore ==
    /\ OnlyCrm
    /\ command = "crm-add-store"
    /\ cpc = "CheckStoreDocumentMode"
    /\ sections = <<>>
    /\ catalogProducts = <<>>
    /\ dealRows \in DealRowStates
    /\ warehouse \in WarehouseStates
    /\ requests = <<>>
    /\ dryRun \in BOOLEAN
    /\ cerr = "nil"
    /\ locals = NoLocals

NextAddStore ==
    \/ CheckStoreDocumentMode
        /\ UNCHANGED <<parserVars, nameVars, walkVars, command>>
    \/ ListStores /\ UNCHANGED <<parserVars, nameVars, walkVars, command>>
    \/ GetStore /\ UNCHANGED <<parserVars, nameVars, walkVars, command>>
    \/ ListStoresNotFound
        /\ UNCHANGED <<parserVars, nameVars, walkVars, command>>
    \/ GetDealWithAmount
        /\ UNCHANGED <<parserVars, nameVars, walkVars, command>>
    \/ StoreGetProductRows
        /\ UNCHANGED <<parserVars, nameVars, walkVars, command>>
    \/ CreateStoreDocument
        /\ UNCHANGED <<parserVars, nameVars, walkVars, command>>
    \/ AddElement /\ UNCHANGED <<parserVars, nameVars, walkVars, command>>
    \/ ConfirmStoreDocument
        /\ UNCHANGED <<parserVars, nameVars, walkVars, command>>

SpecAddStore == InitAddStore /\ [][NextAddStore]_vars

-----------------------------------------------------------------------------
(* Vocabulary of the properties *)

Returned == pc = "done"

Succeeded == pc = "done" /\ err = "nil"

(* Every PlateObject of the returned result *)
PlacedObjects == UNION {Range(result.Plates[i].Objects) : i \in DOMAIN result.Plates}

NumPlaced ==
    LET RECURSIVE Total(_)
        Total(i) == IF i = 0 THEN 0
                    ELSE Len(result.Plates[i].Objects) + Total(i - 1)
    IN  Total(Len(result.Plates))

(* The package's document of a name, as archived *)
ArchivedValid(name) ==
    \E i \in DOMAIN archive : archive[i].Name = name /\ archive[i].Content.Valid

ArchivedDoc(name) ==
    archive[CHOOSE i \in DOMAIN archive : archive[i].Name = name].Content.Doc

InputResources == ArchivedDoc(MainPath).Resources

InputBuild == ArchivedDoc(MainPath).Build

InputParts == ArchivedDoc(SettingsPath).Parts

ResourceIDs == {InputResources[i].ID : i \in DOMAIN InputResources}

(* The resource a placed object was built from: the last one of its id *)
ResourceOf(o) ==
    InputResources[CHOOSE i \in DOMAIN InputResources :
                       /\ InputResources[i].ID = o.ID
                       /\ \A j \in DOMAIN InputResources :
                              j > i => InputResources[j].ID # o.ID]

(* The source file reference of a component: its path attribute, else the  *)
(* source file the part index holds for its object id, else none           *)
SourceOf(comp) ==
    IF comp.Path # "" THEN comp.Path
    ELSE LET hits == {i \in DOMAIN InputParts : InputParts[i].ID = comp.ObjectID}
         IN  IF hits = {} THEN ""
             ELSE InputParts[CHOOSE i \in hits : \A j \in hits : j <= i].SourceFile

(* The sub-assembly document exists, deserializes and has a resource *)
SubAssemblyNonEmpty(path) ==
    /\ ArchivedValid(path)
    /\ Len(ArchivedDoc(path).Resources) > 0

IsSubAssemblyRef(path) == HasSuffix(path, ".model")

Refs(comps) == [i \in DOMAIN comps |-> <<comps[i].ObjectID, SourceOf(comps[i])>>]

Kept(infos) == [i \in DOMAIN infos |-> <<infos[i].ID, infos[i].SourceFile>>]

-----------------------------------------------------------------------------
(* C1: when Parse3MF has returned, on every exit path, the scratch          *)
(* directory created for the call no longer exists.                        *)
C1_ScratchDirRemoved == Returned => tempDir \notin DOMAIN fs

(* A call that created its scratch directory and then failed on the        *)
(* settings document has returned.                                         *)
C1_Witness ==
    /\ Returned
    /\ tempDir # ""
    /\ err = "failed to parse model settings"
    /\ tempDir \notin DOMAIN fs

C3_SubAssemblyKeptIffNonEmpty ==
    /\ Returned /\ ~settings.Nil => err = "nil"
    /\ Succeeded =>
        \A o \in PlacedObjects :
            o.Type = "assembly" =>
                SelectSeq(Kept(o.Components), LAMBDA r : IsSubAssemblyRef(r[2]))
                    = SelectSeq(Refs(ResourceOf(o).Components.Components),
                                LAMBDA r : /\ IsSubAssemblyRef(r[2])
                                           /\ SubAssemblyNonEmpty(r[2]))

(* An assembly whose component refers to a missing or unparseable          *)
(* sub-assembly document was placed, and the component is not listed.      *)
C3_Witness ==
    /\ Succeeded
    /\ \E o \in PlacedObjects :
        /\ o.Type = "assembly"
        /\ o.Components = <<>>
        /\ \E i \in DOMAIN ResourceOf(o).Components.Components :
              LET src == SourceOf(ResourceOf(o).Components.Components[i])
              IN  IsSubAssemblyRef(src) /\ ~ArchivedValid(src)

(* C4: a build item whose object id is absent from the resources adds no    *)
(* object to any plate and causes no error; all other build items are      *)
(* processed.                                                              *)
C4_DanglingBuildItemSkipped ==
    /\ Returned /\ ~settings.Nil => err = "nil"
    /\ Succeeded =>
        /\ \A o \in PlacedObjects : o.ID \in ResourceIDs
        /\ DOMAIN plateMap # {} =>
              NumPlaced = Len(SelectSeq(InputBuild,
                                        LAMBDA b : b.ObjectID \in ResourceIDs))

(* A dangling build item was skipped and another build item was placed.    *)
C4_Witness ==
    /\ Succeeded
    /\ \E i \in DOMAIN InputBuild : InputBuild[i].ObjectID \notin ResourceIDs
    /\ PlacedObjects # {}

(* C5: an error is returned only when the archive cannot be extracted or a  *)
(* required document is missing or malformed; once both documents are      *)
(* parsed nothing makes Parse3MF fail; an error comes with no result.      *)
C5_OnlyDocumentErrorsAreFatal ==
    Returned =>
        /\ err # "nil" => result.Nil
        /\ err = "nil" => ~result.Nil
        /\ err \in {"nil",
                    "failed to extract 3MF archive: failed to open 3MF archive",
                    "failed to extract 3MF archive: failed to create temp directory",
                    "failed to extract 3MF archive: failed to extract file",
                    "failed to parse main model",
                    "failed to parse model settings"}
        /\ err = "failed to parse main model" => ~ArchivedValid(MainPath)
        /\ err = "failed to parse model settings" => ~ArchivedValid(SettingsPath)
        /\ ~model.Nil /\ ~settings.Nil => err = "nil"

(* Parse3MF succeeded on a package whose assembly refers to a malformed    *)
(* sub-assembly document.                                                  *)
C5_Witness ==
    /\ Succeeded
    /\ \E i \in DOMAIN archive :
        archive[i].Name = SubPath /\ ~archive[i].Content.Valid
    /\ \E o \in PlacedObjects :
        /\ o.Type = "assembly"
        /\ \E i \in DOMAIN ResourceOf(o).Components.Components :
              SourceOf(ResourceOf(o).Components.Components[i]) = SubPath

-----------------------------------------------------------------------------
(* Vocabulary of the grouping properties *)

Grouped == gpc = "done"

SumCounts(grps) ==
    LET RECURSIVE Sum(_)
        Sum(K) == IF K = {} THEN 0
                  ELSE LET k == CHOOSE x \in K : TRUE
                       IN  grps[k].Count + Sum(K \ {k})
    IN  Sum(DOMAIN grps)

(* The input objects that have the name and the kind of a group *)
MembersOf(g) == SelectSeq(objects, LAMBDA o : o.Name = g.Name /\ o.Type = g.Type)

IdsOf(objs) == [i \in DOMAIN objs |-> objs[i].ID]

(* C6: the sum of Count over the groups equals the number of objects; an    *)
(* empty list yields no groups.                                            *)
C6_CountsSumToLength ==
    Grouped =>
        /\ SumCounts(groups) = Len(objects)
        /\ objects = <<>> => DOMAIN groups = {}

(* Two objects were grouped into one group of count 2.                     *)
C6_Witness ==
    /\ Grouped
    /\ Len(objects) = 2
    /\ \E k \in DOMAIN groups : groups[k].Count = 2

(* C7: ObjectIDs of a group is the sequence of the ids of the input objects *)
(* with the group's name and kind, in input order; Count is its length;    *)
(* two objects are in the same group iff they agree on name and kind.      *)
C7_GroupMembersInInputOrder ==
    Grouped =>
        /\ \A k \in DOMAIN groups :
              /\ groups[k].ObjectIDs = IdsOf(MembersOf(groups[k]))
              /\ groups[k].Count = Len(groups[k].ObjectIDs)
        /\ \A k1, k2 \in DOMAIN groups :
              groups[k1].Name = groups[k2].Name /\ groups[k1].Type = groups[k2].Type
                  => k1 = k2
        /\ \A i \in DOMAIN objects :
              \E k \in DOMAIN groups :
                  groups[k].Name = objects[i].Name /\ groups[k].Type = objects[i].Type

(* Two objects of one name and kind with ids 2 then 1 were grouped.        *)
C7_Witness ==
    /\ Grouped
    /\ \E k \in DOMAIN groups : groups[k].ObjectIDs = <<2, 1>>

(* C8: the Material of a group is the Material of the first input object    *)
(* with the group's name and kind.                                         *)
C8_MaterialOfFirstMember ==
    Grouped =>
        \A k \in DOMAIN groups :
            MembersOf(groups[k]) # <<>>
                => groups[k].Material = MembersOf(groups[k])[1].Material

(* C9: every PlateObject of a result has kind "mesh" or "assembly".        *)
C9_KindIsMeshOrAssembly ==
    Succeeded => \A o \in PlacedObjects : o.Type \in {"mesh", "assembly"}

(* C10: a PlateObject whose kind is not "assembly" has an empty component   *)
(* list.                                                                   *)
C10_ComponentsOnlyOnAssemblies ==
    Succeeded =>
        \A o \in PlacedObjects : o.Type # "assembly" => o.Components = <<>>

(* A resource with both a mesh and a component that would be kept was      *)
(* placed as a mesh.                                                       *)
C10_Witness ==
    /\ Succeeded
    /\ \E o \in PlacedObjects :
        /\ o.Type = "mesh"
        /\ \E i \in DOMAIN ResourceOf(o).Components.Components :
              SourceOf(ResourceOf(o).Components.Components[i]) = StlPath

-----------------------------------------------------------------------------
(* Vocabulary of the plate properties *)

InputPlates == ArchivedDoc(SettingsPath).Plates

InputInstances == ArchivedDoc(SettingsPath).Instances

InputObjects == ArchivedDoc(SettingsPath).Objects

DeclaredPlateIDs == {InputPlates[i].PlaterID : i \in DOMAIN InputPlates}

ResultPlateIDs == {result.Plates[i].PlateID : i \in DOMAIN result.Plates}

(* The number of placed objects of an id, over all plates *)
NumPlacedWithID(id) ==
    LET RECURSIVE Total(_)
        Total(i) == IF i = 0 THEN 0
                    ELSE Len(SelectSeq(result.Plates[i].Objects,
                                       LAMBDA o : o.ID = id)) + Total(i - 1)
    IN  Total(Len(result.Plates))

(* The ids of the plates that hold an object of an id *)
PlatesHolding(id) ==
    {result.Plates[k].PlateID : k \in
        {j \in DOMAIN result.Plates :
            \E o \in Range(result.Plates[j].Objects) : o.ID = id}}

(* a is b with some elements left out *)
RECURSIVE IsSubsequence(_, _)
IsSubsequence(a, b) ==
    IF a = <<>> THEN TRUE
    ELSE IF b = <<>> THEN FALSE
    ELSE IF Head(a) = Head(b) THEN IsSubsequence(Tail(a), Tail(b))
    ELSE IsSubsequence(a, Tail(b))

(* What tells the objects of two build items apart: id and printable flag *)
BuildKeys ==
    [i \in DOMAIN InputBuild |->
        <<InputBuild[i].ObjectID, InputBuild[i].Printable \in {"nil", "true"}>>]

PlacedKeys(objs) == [i \in DOMAIN objs |-> <<objs[i].ID, objs[i].Printable>>]

(* C11: when at least one plate is declared, every build item whose id      *)
(* resolves in the resources puts exactly one object on exactly one plate, *)
(* so for every id the number of placed objects is the number of build     *)
(* items of that id; when no plate is declared the result has no plates.   *)
C11_OneObjectPerResolvableItem ==
    Succeeded =>
        IF InputPlates # <<>>
        THEN /\ \A id \in ResourceIDs :
                  NumPlacedWithID(id) =
                      Len(SelectSeq(InputBuild, LAMBDA b : b.ObjectID = id))
             /\ \A o \in PlacedObjects : o.ID \in ResourceIDs
        ELSE result.Plates = <<>>

(* Two build items of one resource were placed as two objects.             *)
C11_Witness ==
    /\ Succeeded
    /\ Len(InputBuild) = 2
    /\ InputBuild[1].ObjectID = InputBuild[2].ObjectID
    /\ NumPlacedWithID(InputBuild[1].ObjectID) = 2

(* C12: an object listed as a model instance nested under plate P is        *)
(* placed on plate P.                                                      *)
C12_NestedInstancePlacedOnItsPlate ==
    Succeeded =>
        \A i \in DOMAIN InputPlates :
            \A j \in DOMAIN InputPlates[i].Instances :
                PlatesHolding(InputPlates[i].Instances[j].ObjectID)
                    \subseteq {InputPlates[i].PlaterID}

(* C13: the PlateInfo of a plate entry carries the id and the name that    *)
(* the plater_id and plater_name metadata give, the attributes being used  *)
(* only where the metadata is absent or the id is not an integer.          *)
C13_PlateMetadataOverrides ==
    Succeeded =>
        LET resolved == parsePlates(InputPlates).plateMap
        IN  \A id \in DOMAIN resolved :
                \E k \in DOMAIN result.Plates :
                    /\ result.Plates[k].PlateID = id
                    /\ result.Plates[k].PlateName = resolved[id].PlateName

C15_PlateObjectsInBuildOrder ==
    Succeeded =>
        \A k \in DOMAIN result.Plates :
            IsSubsequence(PlacedKeys(result.Plates[k].Objects), BuildKeys)

(* A plate holds the objects of two different build items.                 *)
C15_Witness ==
    /\ Succeeded
    /\ \E k \in DOMAIN result.Plates :
        /\ Len(result.Plates[k].Objects) = 2
        /\ result.Plates[k].Objects[1].ID # result.Plates[k].Objects[2].ID

-----------------------------------------------------------------------------
(* Vocabulary of the name properties *)

(* The non-empty name metadata the settings document holds for an id *)
ObjectNamesFor(id) ==
    LET entries == UNION {Range(InputObjects[i].Metadata) :
                             i \in {j \in DOMAIN InputObjects :
                                       InputObjects[j].ID = id}}
    IN  {m.Value : m \in {e \in entries : e.Key = "name" /\ e.Value # ""}}

(* The non-empty part names the settings document holds for an id *)
PartNamesFor(id) ==
    {InputParts[i].Name : i \in {j \in DOMAIN InputParts :
                                    InputParts[j].ID = id}} \ {""}

(* C16: the Name of a placed object is the first non-empty value among the  *)
(* object name metadata of its id, the part name of its id and the name    *)
(* attribute of its resource, and "Object_<id>" when there is none; it is  *)
(* never empty.                                                            *)
C16_NameFallbackChain ==
    Succeeded =>
        \A o \in PlacedObjects :
            /\ o.Name # ""
            /\ IF ObjectNamesFor(o.ID) # {} THEN o.Name \in ObjectNamesFor(o.ID)
               ELSE IF PartNamesFor(o.ID) # {} THEN o.Name \in PartNamesFor(o.ID)
               ELSE IF ResourceOf(o).Name # "" THEN o.Name = ResourceOf(o).Name
               ELSE o.Name = "Object_" \o ToString(o.ID)

(* An object whose name metadata is present but empty took the name of     *)
(* the part of its id, although its resource has a name.                   *)
C16_Witness ==
    /\ Succeeded
    /\ \E o \in PlacedObjects :
        /\ o.Name = "Part"
        /\ ResourceOf(o).Name = "Bracket"
        /\ \E i \in DOMAIN InputObjects :
              /\ InputObjects[i].ID = o.ID
              /\ InputObjects[i].Metadata = <<MetadataEntry("name", "")>>

-----------------------------------------------------------------------------
(* C17: getObjectNameFromParts returns the object-level name metadata when  *)
(* it is non-empty, also when the single part has a name; otherwise the    *)
(* name metadata of the part when there is exactly one part and that name  *)
(* is non-empty; otherwise, also with no part or several parts,            *)
(* "Object_<id>".                                                          *)
C17_ObjectNameFromParts ==
    fpc = "done" =>
        LET NamesIn(metadata) ==
                {m.Value : m \in {e \in Range(metadata) :
                                     e.Key = "name" /\ e.Value # ""}}
        IN  IF NamesIn(objMeta.Metadata) # {}
            THEN objName \in NamesIn(objMeta.Metadata)
            ELSE IF Len(objMeta.Parts) = 1
                    /\ NamesIn(objMeta.Parts[1].Metadata) # {}
            THEN objName \in NamesIn(objMeta.Parts[1].Metadata)
            ELSE objName = "Object_" \o ToString(objMeta.ID)

(* An object with a name and a single named part got the object's name.    *)
C17_Witness ==
    /\ fpc = "done"
    /\ objName = "Widget"
    /\ Len(objMeta.Parts) = 1
    /\ extractMetadataValue(objMeta.Parts[1].Metadata, "name") = "Cube"

-----------------------------------------------------------------------------
(* Vocabulary of the transform properties *)

CharAt(s, i) == SubSeq(s, i, i)

(* Where the tokens of a string start: at a character that is not white    *)
(* space and follows white space or nothing                                *)
TokenStarts(s) ==
    {i \in 1..Len(s) :
        ~IsSpace(CharAt(s, i)) /\ (i = 1 \/ IsSpace(CharAt(s, i - 1)))}

(* The token that starts at i: up to the next white space or the end *)
TokenAt(s, i) ==
    SubSeq(s, i, CHOOSE j \in i..Len(s) :
                    /\ \A k \in i..j : ~IsSpace(CharAt(s, k))
                    /\ j = Len(s) \/ IsSpace(CharAt(s, j + 1)))

(* The k-th token of a string *)
Token(s, k) ==
    TokenAt(s, CHOOSE i \in TokenStarts(s) :
                   Cardinality({j \in TokenStarts(s) : j < i}) = k - 1)

(* The numbers the numerals of the token pool denote, as mantissa and      *)
(* decimal exponent; a token outside this table is not a number float64    *)
(* can hold                                                                *)
NumeralValue(token) ==
    CASE token = "1" -> [Mant |-> 1, Exp |-> 0]
      [] token = "1.0" -> [Mant |-> 1, Exp |-> 0]
      [] token = "0" -> [Mant |-> 0, Exp |-> 0]
      [] token = "7" -> [Mant |-> 7, Exp |-> 0]
      [] token = "-2.5" -> [Mant |-> -25, Exp |-> -1]
      [] token = "+3" -> [Mant |-> 3, Exp |-> 0]
      [] token = ".5" -> [Mant |-> 5, Exp |-> -1]
      [] token = "5." -> [Mant |-> 5, Exp |-> 0]
      [] token = "1e2" -> [Mant |-> 1, Exp |-> 2]
      [] token = "2E-1" -> [Mant |-> 2, Exp |-> -1]
      [] OTHER -> [Mant |-> 0, Exp |-> 0]

(* C18: ParseTransform always returns twelve numbers: the identity matrix   *)
(* when the string does not have exactly 12 white-space separated tokens,  *)
(* and otherwise at each position the number its token denotes, or 0 when  *)
(* the token is not a number, whatever the other tokens are.               *)
C18_ParseTransformReference ==
    fpc = "done" =>
        /\ Len(transform) = 12
        /\ IF Cardinality(TokenStarts(transformStr)) # 12
           THEN transform =
                    [i \in 1..12 |-> IF i \in {1, 5, 9}
                                     THEN [Mant |-> 1, Exp |-> 0]
                                     ELSE [Mant |-> 0, Exp |-> 0]]
           ELSE \A k \in 1..12 :
                    transform[k] = NumeralValue(Token(transformStr, k))

(* Twelve tokens of which one is not a number and another denotes -2.5.    *)
C18_Witness ==
    /\ fpc = "done"
    /\ Cardinality(TokenStarts(transformStr)) = 12
    /\ \E i, j \in 1..12 :
        /\ Token(transformStr, i) = "abc"
        /\ transform[i] = [Mant |-> 0, Exp |-> 0]
        /\ Token(transformStr, j) = "-2.5"
        /\ transform[j] = [Mant |-> -25, Exp |-> -1]

-----------------------------------------------------------------------------
(* Vocabulary of the concurrency properties *)

(* The positions at which a call owns a scratch directory *)
HoldsScratchDir(position) ==
    position \in {"extract", "parseModel", "parseSettings", "index", "build"}

(* The tree a call running alone has in its scratch directory after it     *)
(* extracted the first n entries of its package                            *)
RECURSIVE ExtractedAlone(_, _, _)
ExtractedAlone(package, dir, n) ==
    IF n = 0 THEN [d \in {dir} |-> EmptyMap]
    ELSE WriteEntry(ExtractedAlone(package, dir, n - 1), dir, package[n])

(* The scratch directory of a call holds what the call alone has put there *)
ReadsOwnTree(call) ==
    HoldsScratchDir(call.pc) =>
        /\ call.tempDir \in DOMAIN fs
        /\ fs[call.tempDir] =
               ExtractedAlone(call.archive, call.tempDir,
                              call.entryIdx - 1)[call.tempDir]

Running ==
    CallState(archive, tempDir, pc, entryIdx, model, settings, plateMap,
              buildIdx, result, err)

(* C19: two concurrently running Parse3MF calls use distinct scratch        *)
(* directories, and no step of one call removes or changes a file of the   *)
(* other call's scratch directory, so that each call reads, and returns,   *)
(* what it does when run alone.                                            *)
C19_ConcurrentCallsDoNotInterfere ==
    /\ HoldsScratchDir(pc) /\ HoldsScratchDir(other.pc)
          => tempDir # other.tempDir
    /\ ReadsOwnTree(Running)
    /\ ReadsOwnTree(other)

-----------------------------------------------------------------------------
(* C20: every file and directory ExtractArchive creates lies inside the     *)
(* scratch directory of the call, also for entry names with ".." segments  *)
(* and for absolute names: nothing outside it is created or overwritten.   *)
C20_ExtractionStaysInScratchDir ==
    DOMAIN fs \subseteq {tempDir}

-----------------------------------------------------------------------------
(* C23: an object whose id the instance index maps to a declared plate is   *)
(* put on that plate and on no other; with a single declared plate every   *)
(* resolvable object of the build list is on that plate.                   *)
C23_MappedObjectOnItsPlate ==
    Succeeded =>
        /\ \A i \in DOMAIN InputInstances :
              (/\ \A j \in DOMAIN InputInstances :
                     j > i => InputInstances[j].ObjectID # InputInstances[i].ObjectID
               /\ InputInstances[i].InstanceID \in DeclaredPlateIDs)
                  => PlatesHolding(InputInstances[i].ObjectID)
                         \subseteq {InputInstances[i].InstanceID}
        /\ Cardinality(DeclaredPlateIDs) = 1 =>
              \A i \in DOMAIN InputBuild :
                  InputBuild[i].ObjectID \in ResourceIDs
                      => PlatesHolding(InputBuild[i].ObjectID) = DeclaredPlateIDs

(* With plates 1 and 2 declared, object 1 was mapped to plate 2 and is     *)
(* there.                                                                  *)
C23_Witness ==
    /\ Succeeded
    /\ DeclaredPlateIDs = {1, 2}
    /\ InputInstances = <<ModelInstance(1, 2, <<>>)>>
    /\ PlatesHolding(1) = {2}

(* C24: the instance index Parse3MF uses takes the object id and the        *)
(* instance id of an entry from its object_id and instance_id metadata     *)
(* where present and integer, and from the attributes otherwise, the last  *)
(* entry of an object id winning.                                          *)
C24_InstanceMetadataOverrides ==
    Succeeded =>
        LET index == parseModelInstances(InputInstances)
        IN  \A id \in DOMAIN index :
                index[id] \in DeclaredPlateIDs
                    => PlatesHolding(id) \subseteq {index[id]}

(* C25: a resource with a mesh is reported with kind "mesh" and no          *)
(* component, also when it carries a components collection; a resource     *)
(* with no mesh and a components collection is reported with kind          *)
(* "assembly"; the metadata of the settings document does not change the   *)
(* kind.                                                                   *)
C25_KindFromStructureOnly ==
    Succeeded =>
        \A o \in PlacedObjects :
            /\ ResourceOf(o).Mesh => o.Type = "mesh" /\ o.Components = <<>>
            /\ ~ResourceOf(o).Mesh /\ ~ResourceOf(o).Components.Nil
                  => o.Type = "assembly"

(* A mesh resource that the settings document names "Assembly", with two   *)
(* parts, was placed as a mesh.                                            *)
C25_Witness ==
    /\ Succeeded
    /\ \E o \in PlacedObjects :
        /\ o.Type = "mesh"
        /\ \E i \in DOMAIN InputObjects :
              InputObjects[i].ID = o.ID /\ isAssemblyObject(InputObjects[i])

-----------------------------------------------------------------------------
(* Vocabulary of the component name property *)

(* A component is listed when it has a source file and that file is not a  *)
(* missing, unparseable or empty sub-assembly document                     *)
ExpectedKept(comp) ==
    /\ SourceOf(comp) # ""
    /\ IsSubAssemblyRef(SourceOf(comp)) => SubAssemblyNonEmpty(SourceOf(comp))

ExpectedComponentName(comp) ==
    LET res == IF comp.Path # "" /\ ArchivedValid(comp.Path)
               THEN ArchivedDoc(comp.Path).Resources
               ELSE <<>>
        named == {i \in DOMAIN res :
                     res[i].ID = comp.ObjectID /\ res[i].Name # ""}
        parts == {i \in DOMAIN InputParts : InputParts[i].ID = comp.ObjectID}
    IN  IF named # {}
        THEN res[CHOOSE i \in named : \A j \in named : i <= j].Name
        ELSE IF parts # {}
        THEN InputParts[CHOOSE i \in parts : \A j \in parts : j <= i].Name
        ELSE "Component_" \o ToString(comp.ObjectID)

(* C26: the Name of a listed component is the name of the first resource    *)
(* of its object id with a non-empty name in the document its path names,  *)
(* when it has a path and the document parses; otherwise the part name     *)
(* indexed for its object id; otherwise "Component_<id>".                  *)
C26_ComponentNameResolution ==
    Succeeded =>
        \A o \in PlacedObjects :
            o.Type = "assembly" =>
                LET listed == SelectSeq(ResourceOf(o).Components.Components,
                                        ExpectedKept)
                IN  [i \in DOMAIN o.Components |-> o.Components[i].Name]
                        = [i \in DOMAIN listed |->
                              ExpectedComponentName(listed[i])]

(* A component took the name of the second resource of its id, the first   *)
(* one having no name, and another kept its part name since its file is    *)
(* no document.                                                            *)
C26_Witness ==
    /\ Succeeded
    /\ \E o \in PlacedObjects :
        /\ o.Type = "assembly"
        /\ \E i, j \in DOMAIN o.Components :
              /\ o.Components[i].Name = "Second"
              /\ o.Components[j].Name = "Part"
              /\ o.Components[j].SourceFile = StlPath


-----------------------------------------------------------------------------
(* The number a run of digits denotes *)
RECURSIVE DigitValue(_)
DigitValue(ds) ==
    IF ds = <<>> THEN 0
    ELSE 10 * DigitValue(SubSeq(ds, 1, Len(ds) - 1)) + DigitOf(ds[Len(ds)])

(* The file name without its extension *)
NameWithoutExt == TrimSuffix(fileName, Ext(fileName))

(* The lengths of the digit prefixes with which NameWithoutExt has the *)
(* form <digits><x or ha><underscore or whitespace><rest>, the digits  *)
(* denoting a number greater than 0 and the rest not being empty       *)
QuantityPrefixes ==
    {i \in 1..Len(NameWithoutExt) :
        /\ \A k \in 1..i : IsDigit(NameWithoutExt[k])
        /\ i + 3 <= Len(NameWithoutExt)
        /\ NameWithoutExt[i + 1] \in {"x", CyrillicHa}
        /\ NameWithoutExt[i + 2] = "_" \/ IsRegexSpace(NameWithoutExt[i + 2])
        /\ DigitValue(SubSeq(NameWithoutExt, 1, i)) > 0}

(* C21: for every file name, ParseFileName strips the extension; when the *)
(* remainder is <digits><x or Cyrillic ha><underscore or whitespace><rest> *)
(* with a digit value greater than 0 it returns (rest, that value), and in *)
(* every other case (the whole name without extension, 1)                  *)
C21_QuantityPrefixParsed ==
    npc = "done" =>
        IF QuantityPrefixes # {}
        THEN \E i \in QuantityPrefixes :
                /\ cleanName = SubSeq(NameWithoutExt, i + 3,
                                      Len(NameWithoutExt))
                /\ quantity = Float(DigitValue(SubSeq(NameWithoutExt, 1, i)),
                                    0)
        ELSE /\ cleanName = NameWithoutExt
             /\ quantity = Float(1, 0)


-----------------------------------------------------------------------------
(* The names of the entries of the given kinds in the tree under d, one *)
(* for every entry, in some order                                       *)
RECURSIVE NamesUnder(_, _)
RECURSIVE NamesUnderAll(_, _)
NamesUnder(d, kinds) ==
    (IF d.Kind \in kinds THEN <<d.Name>> ELSE <<>>)
        \o NamesUnderAll(CHOOSE s \in Orders(d.Entries) : TRUE, kinds)

NamesUnderAll(entries, kinds) ==
    IF entries = <<>> THEN <<>>
    ELSE NamesUnder(entries[1], kinds) \o NamesUnderAll(Tail(entries), kinds)

(* Every directory of the tree under d can be read *)
RECURSIVE AllReadable(_)
AllReadable(d) ==
    /\ IsDir(d) => d.Readable
    /\ \A c \in d.Entries : AllReadable(c)

(* The name ends in the suffix, compared case-insensitively *)
EndsWithFold(name, suffix) ==
    /\ Len(name) >= Len(suffix)
    /\ \A k \in 1..Len(suffix) :
          ToLowerRune(name[Len(name) - Len(suffix) + k]) = suffix[k]

Ends3D(name) ==
    EndsWithFold(name, Runes(".stl")) \/ EndsWithFold(name, Runes(".step"))

(* Two sequences hold the same elements the same number of times *)
SameBag(a, b) ==
    /\ Len(a) = Len(b)
    /\ \A x \in Range(a) \cup Range(b) :
          Cardinality({i \in DOMAIN a : a[i] = x})
              = Cardinality({i \in DOMAIN b : b[i] = x})

(* The lower-cased clean name of a file name *)
SortKey(name) == ToLower(ParseFileName(name).cleanName)

(* The returned names are in non-decreasing order of their sort keys *)
FoundInOrder ==
    \A i \in 1..(Len(found) - 1) :
        ~StringLess(SortKey(found[i + 1]), SortKey(found[i]))

(* find3DFiles has returned what the claim states of the entries of the *)
(* given kinds                                                          *)
FoundExactly(kinds) ==
    wpc = "done" =>
        IF walkRoot = NoEntry THEN walkErr # "nil"
        ELSE /\ AllReadable(walkRoot) <=> walkErr = "nil"
             /\ walkErr = "nil" =>
                   /\ SameBag(found,
                              SelectSeq(NamesUnder(walkRoot, kinds), Ends3D))
                   /\ FoundInOrder

(* C22 as stated: find3DFiles returns the base names of exactly the      *)
(* regular files, at any depth, whose name ends in ".stl" or ".step"     *)
(* case-insensitively, in non-decreasing order of the lower-cased clean  *)
(* name; a non-existent directory yields an error                        *)
C22_RegularFilesFoundInOrder == FoundExactly({"file"})

(* C22 amended: find3DFiles returns the base names of exactly the        *)
(* entries that are not directories (regular files and symbolic links),  *)
(* at any depth, whose name ends in ".stl" or ".step" case-insensitively,*)
(* in non-decreasing order of the lower-cased clean name; a non-existent *)
(* directory yields an error                                             *)
C22_NonDirectoriesFoundInOrder == FoundExactly({"file", "symlink"})

(* A link and two files of three directory levels are returned, the file *)
(* with the quantity prefix first                                        *)
C22_Witness ==
    /\ wpc = "done"
    /\ walkErr = "nil"
    /\ found = <<Runes("2x_a.STL"), Runes("c.step"), Runes("l.stl")>>
    /\ walkRoot \in DeepTrees


-----------------------------------------------------------------------------
(* a is a prefix of b *)
IsPrefix(a, b) ==
    /\ Len(a) <= Len(b)
    /\ SubSeq(b, 1, Len(a)) = a

(* C27: every call of AddProductRowsToDeal that is not a dry run and     *)
(* returns success leaves the deal with the rows it had before the call  *)
(* followed by the new rows, and no call removes a row the deal had,     *)
(* whatever the outcome of the request that reads the existing rows      *)
C27_ExistingRowsKept ==
    [][command = "crm-add-items" =>
          /\ IsPrefix(dealRows, dealRows')
          /\ (cpc = "AddProductsToDeal" /\ cerr' = "nil") =>
                dealRows' = dealRows \o locals.newProducts]_vars


-----------------------------------------------------------------------------
(* The sum over the rows of Price x Quantity, in cents *)
RECURSIVE RowsTotal(_)
RowsTotal(rows) ==
    IF rows = <<>> THEN 0
    ELSE rows[1].Price * Units(rows[1].Quantity) + RowsTotal(Tail(rows))

(* SpreadPriceByCount has computed the price of every row *)
PricesComputed ==
    /\ command = "crm-spread-price"
    /\ locals.products # <<>>
    /\ locals.i > Len(locals.products)

(* C28: for every deal whose rows have a positive total quantity, the unit *)
(* prices SpreadPriceByCount computes are whole numbers of cents and the   *)
(* sum over the rows of Price x Quantity equals the deal amount to the     *)
(* cent, the last row absorbing the rounding remainder                     *)
C28_PricesSumToAmount ==
    PricesComputed =>
        /\ \A k \in DOMAIN locals.products : locals.products[k].Price \in Int
        /\ RowsTotal(locals.products) = locals.totalAmount


-----------------------------------------------------------------------------
(* The methods that change the catalog or the deal *)
MutatingMethods ==
    {"catalog.section.add", "catalog.product.add", "crm.deal.productrows.set"}

(* C29: with dryRun = true none of EnsureCompaniesFolder,                 *)
(* EnsureCustomerSection, EnsureProjectSection, CreateProductsFrom3DFiles, *)
(* AddProductRowsToDeal and SpreadPriceByCount sends a mutating request,   *)
(* and the sections, the products and the deal rows stay as they were      *)
C29_DryRunChangesNothing ==
    [][dryRun =>
          /\ UNCHANGED <<sections, catalogProducts, dealRows>>
          /\ \A k \in DOMAIN requests' :
                requests'[k].Method \notin MutatingMethods]_vars

(* A dry run of crm-add-items on an empty catalog has gone through every *)
(* function: each section and each product would be created, the rows    *)
(* would be added, and only list and get requests were sent              *)
C29_Witness ==
    /\ dryRun
    /\ command = "crm-add-items"
    /\ cpc = "done"
    /\ cerr = "nil"
    /\ sections = <<>>
    /\ catalogProducts = <<>>
    /\ locals.companiesFolderID = "dry-run-companies-folder-id"
    /\ locals.customerSectionID = "dry-run-customer-section-id"
    /\ locals.projectSectionID = "dry-run-project-section-id"
    /\ Len(locals.productInfos) = MaxFiles
    /\ locals.productInfos[MaxFiles].ID = "dry-run-product-" \o Itoa(MaxFiles)
    /\ Len(requests) = 5

(* The positions in the log of the requests of a method *)
RequestsOf(method) ==
    {k \in DOMAIN requests : requests[k].Method = method}

(* A request of the method was answered without an error before the *)
(* request at position k                                            *)
AnsweredBefore(method, k) ==
    \E j \in RequestsOf(method) : j < k /\ requests[j].Ok

(* The elements the document has for the first n rows of the deal *)
ElementsOfRows(n) ==
    [k \in 1..n |-> DocumentElement(dealRows[k], StoreID)]

(* The document is created only after the warehouse mode was reported *)
(* enabled, the store was found active and the deal had a product     *)
CreatedAfterChecks ==
    \A k \in RequestsOf("catalog.document.add") :
        /\ AnsweredBefore("catalog.document.mode.status", k)
        /\ warehouse.Mode = "Y"
        /\ AnsweredBefore("catalog.store.get", k)
        /\ FindStore(warehouse.Stores, StoreID).Active = "Y"
        /\ locals.store = FindStore(warehouse.Stores, StoreID)
        /\ AnsweredBefore("crm.deal.productrows.get", k)
        /\ Len(dealRows) >= 1
        /\ RequestsOf("catalog.document.add") = {k}

(* The document is confirmed only after every product of the deal was *)
(* added to it without an error                                       *)
ConfirmedAfterAllAdded ==
    \A k \in RequestsOf("catalog.document.confirm") :
        /\ \A j \in RequestsOf("catalog.document.element.add") :
              j < k /\ requests[j].Ok
        /\ Cardinality(RequestsOf("catalog.document.element.add"))
              = Len(dealRows)
        /\ warehouse.Document.Elements = ElementsOfRows(Len(dealRows))
        /\ AnsweredBefore("catalog.document.add", k)

(* After a product could not be added no request follows: no other *)
(* product is added and the document is not confirmed              *)
FailedAddIsLast ==
    \A k \in RequestsOf("catalog.document.element.add") :
        ~requests[k].Ok =>
            /\ k = Len(requests)
            /\ cpc = "done" /\ cerr # "nil"
            /\ ~warehouse.Document.Confirmed
            /\ Len(warehouse.Document.Elements) < Len(dealRows)
            /\ warehouse.Document.Elements
                  = ElementsOfRows(Len(warehouse.Document.Elements))

(* C30: in a run of crm-add-store that is not a dry run, the receipt     *)
(* document is created only after warehouse mode was reported enabled,   *)
(* the store was found active and the deal was found to have a product;  *)
(* it is confirmed only after every product of the deal was added to it  *)
(* without an error; and when adding a product fails, the products after *)
(* it are not added and no confirm request is sent                       *)
C30_DocumentConfirmedOnlyWhenComplete ==
    (command = "crm-add-store" /\ ~dryRun) =>
        /\ CreatedAfterChecks
        /\ ConfirmedAfterAllAdded
        /\ FailedAddIsLast

(* A run that added two products and confirmed the document *)
C30_Witness ==
    /\ command = "crm-add-store" /\ ~dryRun
    /\ cpc = "done" /\ cerr = "nil"
    /\ Len(dealRows) = 2
    /\ warehouse.Document.Confirmed
    /\ requests[Len(requests)] = Request("catalog.document.confirm", TRUE)

====
